---- MODULE Spec2Model ----
(***************************************************************************)
(* Model of the torrent-metadata browse client: the paginated query engine *)
(* of js/browse-ui.js, the SdkClient wrapper of js/sdk-client.js, the      *)
(* codec helpers of js/utils.js and the submit flow of js/admin-ui.js.     *)
(*                                                                         *)
(* Strings whose characters matter (search terms, identifiers) are         *)
(* sequences of one-character strings.  Numbers parsed from text are kept  *)
(* as their canonical decimal digit sequence, so that the ten-digit range  *)
(* of typed identifiers is exact.                                          *)
(***************************************************************************)
EXTENDS Integers, Sequences, FiniteSets, TLC

\* ------------------------------------------------------------------ bounds
MaxPage == 3
MaxInFlight == 2
ShortLen == 2
MaxBytes == 3
MaxChars == 3
MaxTrackers == 2

\* ------------------------------------------------------- program constants
PageSize == 12
DefaultLimit == 10
MaxIdDigits == 10

\* JS null for a cursor or a document identifier (identifiers are positive)
Null == 0
\* JS null for the SdkClient.sdk field
NoSdk == "null"
\* JS null returned by the typed-ID parsers
NullId == <<"null">>
\* JS null for the CONFIG fields
NoSetting == "null"

\* ------------------------------------------------------------ browse-config
CONFIG_DEFAULT == [contractId |-> NoSetting, network |-> NoSetting,
                   pageSize |-> PageSize, defaultTab |-> "movie"]

TAB_CONFIG ==
  [movie |-> [searchField |-> "imdbId",       indexField |-> "imdbId"],
   tv    |-> [searchField |-> "seriesImdbId", indexField |-> "seriesImdbId"],
   book  |-> [searchField |-> "workId",       indexField |-> "workId"],
   iso   |-> [searchField |-> "title",        indexField |-> "title"],
   other |-> [searchField |-> "title",        indexField |-> "title"]]

\* ------------------------------------------------------------- text helpers
Digits == {"0", "1", "2", "3", "4", "5", "6", "7", "8", "9"}
WhiteSpace == {" ", "\t", "\n"}

RECURSIVE TrimLeft(_)
TrimLeft(s) ==
  IF s = <<>> THEN s
  ELSE IF Head(s) \in WhiteSpace THEN TrimLeft(Tail(s)) ELSE s

RECURSIVE TrimRight(_)
TrimRight(s) ==
  IF s = <<>> THEN s
  ELSE IF s[Len(s)] \in WhiteSpace THEN TrimRight(SubSeq(s, 1, Len(s) - 1)) ELSE s

\* String.prototype.trim
Trim(s) == TrimRight(TrimLeft(s))

RECURSIVE DigitPrefix(_)
DigitPrefix(s) ==
  IF s = <<>> THEN <<>>
  ELSE IF Head(s) \in Digits THEN <<Head(s)>> \o DigitPrefix(Tail(s)) ELSE <<>>

RECURSIVE Canonical(_)
\* the decimal digits of the number a digit string denotes (no leading zeros)
Canonical(ds) ==
  IF Len(ds) <= 1 THEN ds
  ELSE IF Head(ds) = "0" THEN Canonical(Tail(ds)) ELSE ds

AllDigits(s) == \A i \in 1..Len(s) : s[i] \in Digits

\* parseInt(str, 10): leading white space, an optional sign, then the longest
\* run of digits; NaN when there is no digit
parseInt(str) ==
  LET t    == TrimLeft(str)
      sign == IF t # <<>> /\ Head(t) \in {"+", "-"} THEN Head(t) ELSE ""
      body == IF sign = "" THEN t ELSE Tail(t)
      ds   == DigitPrefix(body)
  IN  [isNaN |-> ds = <<>>, neg |-> sign = "-", digits |-> Canonical(ds)]

\* num >= 0 && num <= 9999999999
InIdRange(n) ==
  /\ ~n.isNaN
  /\ (n.neg => n.digits = <<"0">>)
  /\ Len(n.digits) <= MaxIdDigits

\* /^tt(\d{1,10})$/i
MatchesImdb(s) ==
  /\ Len(s) >= 3 /\ Len(s) <= 2 + MaxIdDigits
  /\ s[1] \in {"t", "T"} /\ s[2] \in {"t", "T"}
  /\ AllDigits(SubSeq(s, 3, Len(s)))

\* /^OL(\d{1,10})W$/i
MatchesWork(s) ==
  /\ Len(s) >= 4 /\ Len(s) <= 3 + MaxIdDigits
  /\ s[1] \in {"o", "O"} /\ s[2] \in {"l", "L"}
  /\ s[Len(s)] \in {"w", "W"}
  /\ AllDigits(SubSeq(s, 3, Len(s) - 1))

parseImdbId(imdbStr) ==
  IF imdbStr = <<>> THEN NullId
  ELSE IF MatchesImdb(imdbStr) THEN Canonical(SubSeq(imdbStr, 3, Len(imdbStr)))
  ELSE LET num == parseInt(imdbStr)
       IN  IF InIdRange(num) THEN num.digits ELSE NullId

parseWorkId(workIdStr) ==
  IF workIdStr = <<>> THEN NullId
  ELSE IF MatchesWork(workIdStr)
       THEN Canonical(SubSeq(workIdStr, 3, Len(workIdStr) - 1))
  ELSE LET num == parseInt(workIdStr)
       IN  IF InIdRange(num) THEN num.digits ELSE NullId

\* the width formatImdbId pads the digits to
ImdbPad == 7

RECURSIVE PadStart(_, _, _)
\* String.prototype.padStart
PadStart(s, width, c) ==
  IF Len(s) >= width THEN s ELSE PadStart(<<c>> \o s, width, c)

\* formatImdbId without the padding
formatImdbIdUnpadded(imdbInt) ==
  IF imdbInt = NullId THEN NullId ELSE <<"t", "t">> \o imdbInt

\* formatImdbId on a number given by its decimal digits, NullId for null
formatImdbId(imdbInt) ==
  IF imdbInt = NullId THEN NullId
  ELSE <<"t", "t">> \o PadStart(imdbInt, ImdbPad, "0")

formatWorkId(workIdInt) ==
  IF workIdInt = NullId THEN NullId
  ELSE <<"O", "L">> \o workIdInt \o <<"W">>

\* ------------------------------------------------------------------ base58
\* BASE58_ALPHABET, one character per element
BASE58_ALPHABET ==
  <<"1", "2", "3", "4", "5", "6", "7", "8", "9",
    "A", "B", "C", "D", "E", "F", "G", "H", "J", "K", "L", "M", "N", "P", "Q",
    "R", "S", "T", "U", "V", "W", "X", "Y", "Z",
    "a", "b", "c", "d", "e", "f", "g", "h", "i", "j", "k", "m", "n", "o", "p",
    "q", "r", "s", "t", "u", "v", "w", "x", "y", "z">>

\* an indexOf that takes an unknown character for the first symbol
indexOfLenient(c) ==
  IF \E i \in 1..Len(BASE58_ALPHABET) : BASE58_ALPHABET[i] = c
  THEN (CHOOSE i \in 1..Len(BASE58_ALPHABET) : BASE58_ALPHABET[i] = c) - 1
  ELSE 0

\* BASE58_ALPHABET.indexOf(c): -1 when c is not in the alphabet
indexOf(c) ==
  IF \E i \in 1..Len(BASE58_ALPHABET) : BASE58_ALPHABET[i] = c
  THEN (CHOOSE i \in 1..Len(BASE58_ALPHABET) : BASE58_ALPHABET[i] = c) - 1
  ELSE -1

\* the element of a set of one element; Only({e : x \in {v}}) is e with x
\* bound to the value of v, computed once and then held, as a const or let
\* binding of the source holds it
Only(S) == CHOOSE y \in S : TRUE

\* Array.prototype.reverse
Reverse(s) == SubSeq([i \in 1..Len(s) |-> s[Len(s) + 1 - i]], 1, Len(s))

RECURSIVE LeadingCount(_, _)
\* the number of elements the loop "if (x !== lead) break" passes over
LeadingCount(s, lead) ==
  IF s = <<>> \/ Head(s) # lead THEN 0 ELSE 1 + LeadingCount(Tail(s), lead)

Repeat(x, n) == [i \in 1..n |-> x]

RECURSIVE CarryOver(_, _, _, _, _, _)
\* the for loop of both codecs over digits[from..to] of a little-endian digit
\* array: each digit times factor plus the carry; the digits written and the
\* carry left. The range is cut in halves, the lower half first.
CarryOver(digits, carry, factor, base, from, to) ==
  IF from > to THEN <<<<>>, carry>>
  ELSE IF from = to
  THEN Only({<<<<c % base>>, c \div base>> :
               c \in {carry + digits[from] * factor}})
  ELSE Only({Only({<<low[1] \o high[1], high[2]>> :
                     high \in {CarryOver(digits, low[2], factor, base,
                                         (from + to) \div 2 + 1, to)}}) :
               low \in {CarryOver(digits, carry, factor, base,
                                  from, (from + to) \div 2)}})

RECURSIVE Pushed(_, _)
\* the while loop of both codecs: the digits pushed for the carry left
Pushed(carry, base) ==
  IF carry > 0 THEN <<carry % base>> \o Pushed(carry \div base, base)
  ELSE <<>>

\* the inner loops of both codecs on a little-endian digit array: multiply
\* the number by factor, add carry, and push the digits that overflow
CarryInto(digits, carry, factor, base) ==
  Only({written[1] \o Pushed(written[2], base) :
          written \in {CarryOver(digits, carry, factor, base, 1, Len(digits))}})

RECURSIVE EncodeRange(_, _, _, _)
\* the first loop of base58Encode over bytes[from..to], from the digit array
\* digits: the lower half of the range, then the upper half from its digits
EncodeRange(bytes, digits, from, to) ==
  IF from > to THEN digits
  ELSE IF from = to THEN CarryInto(digits, bytes[from], 256, 58)
  ELSE Only({EncodeRange(bytes, first, (from + to) \div 2 + 1, to) :
               first \in {EncodeRange(bytes, digits, from, (from + to) \div 2)}})

\* the first loop of base58Encode, from the digit array digits
EncodeDigits(bytes, digits) == EncodeRange(bytes, digits, 1, Len(bytes))

base58Encode(bytes) ==
  Only({Only({Repeat("1", LeadingCount(input, 0))
                \o [i \in 1..Len(digits) |-> BASE58_ALPHABET[digits[i] + 1]] :
                digits \in {Reverse(EncodeDigits(input, <<0>>))}}) :
          input \in {bytes}})

RECURSIVE DecodeRange(_, _, _, _)
\* the first loop of base58Decode over str[from..to], from the byte array
\* bytes: the lower half of the range, then the upper half from its bytes
DecodeRange(str, bytes, from, to) ==
  IF from > to THEN bytes
  ELSE IF from = to THEN CarryInto(bytes, indexOf(str[from]), 58, 256)
  ELSE Only({DecodeRange(str, first, (from + to) \div 2 + 1, to) :
               first \in {DecodeRange(str, bytes, from, (from + to) \div 2)}})

\* the first loop of base58Decode, from the byte array bytes
DecodeBytes(str, bytes) == DecodeRange(str, bytes, 1, Len(str))

\* the outcome of a call that throws
Thrown(message) == [ok |-> FALSE, error |-> message, value |-> <<>>]

\* the outcome of a call that returns value
Returned(value) == [ok |-> TRUE, error |-> "", value |-> value]

base58Decode(str) ==
  Only({IF \E i \in 1..Len(input) : indexOf(input[i]) = -1
        THEN Thrown("Invalid base58 character")
        ELSE Returned(Reverse(DecodeBytes(input, <<>>)
                                \o Repeat(0, LeadingCount(input, "1")))) :
          input \in {str}})

\* ------------------------------------------------------------- magnet links
\* the printable ASCII characters, from code 32 to code 126 (the grave accent
\* as its "U+" token)
Ascii ==
  <<" ", "!", "\"", "#", "$", "%", "&", "'", "(", ")", "*", "+",
    ",", "-", ".", "/", "0", "1", "2", "3", "4", "5", "6", "7",
    "8", "9", ":", ";", "<", "=", ">", "?", "@", "A", "B", "C",
    "D", "E", "F", "G", "H", "I", "J", "K", "L", "M", "N", "O",
    "P", "Q", "R", "S", "T", "U", "V", "W", "X", "Y", "Z", "[",
    "\\", "]", "^", "_", "U+96", "a", "b", "c", "d", "e", "f", "g",
    "h", "i", "j", "k", "l", "m", "n", "o", "p", "q", "r", "s",
    "t", "u", "v", "w", "x", "y", "z", "{", "|", "}", "~">>

\* the character with code point cp: itself when printable ASCII, a "U+"
\* token otherwise
CharOf(cp) ==
  IF cp \in 32..126 THEN Ascii[cp - 31]
  ELSE IF cp = 10 THEN "\n"
  ELSE IF cp = 9 THEN "\t"
  ELSE "U+" \o ToString(cp)

HexDigits == <<"0", "1", "2", "3", "4", "5", "6", "7", "8", "9",
               "a", "b", "c", "d", "e", "f">>

UpperCase == <<"A", "B", "C", "D", "E", "F", "G", "H", "I", "J", "K", "L", "M",
               "N", "O", "P", "Q", "R", "S", "T", "U", "V", "W", "X", "Y", "Z">>

LowerCase == <<"a", "b", "c", "d", "e", "f", "g", "h", "i", "j", "k", "l", "m",
               "n", "o", "p", "q", "r", "s", "t", "u", "v", "w", "x", "y", "z">>

\* the position of c in the sequence s, 0 when it is not there
Position(s, c) ==
  IF \E i \in 1..Len(s) : s[i] = c THEN CHOOSE i \in 1..Len(s) : s[i] = c ELSE 0

\* String.prototype.toLowerCase and toUpperCase, one character
Lower(c) == IF Position(UpperCase, c) > 0 THEN LowerCase[Position(UpperCase, c)] ELSE c

Upper(c) == IF Position(LowerCase, c) > 0 THEN UpperCase[Position(LowerCase, c)] ELSE c

toLowerCase(s) == [i \in 1..Len(s) |-> Lower(s[i])]

toUpperCase(s) == [i \in 1..Len(s) |-> Upper(s[i])]

\* [a-fA-F0-9]
IsHex(c) == Position(HexDigits, Lower(c)) > 0

HexVal(c) == Position(HexDigits, Lower(c)) - 1

\* "%XY" at the head of s with X and Y hexadecimal
IsEscape(s) == Len(s) >= 3 /\ s[1] = "%" /\ IsHex(s[2]) /\ IsHex(s[3])

EscapeByte(s) == HexVal(s[2]) * 16 + HexVal(s[3])

\* the number of octets of the UTF-8 sequence that starts with octet b, 0 for
\* an octet that cannot start one
Utf8Length(b) ==
  IF b < 128 THEN 1
  ELSE IF b \in 192..223 THEN 2
  ELSE IF b \in 224..239 THEN 3
  ELSE IF b \in 240..247 THEN 4
  ELSE 0

RECURSIVE Continuation(_, _, _)
\* the code point after reading k continuation escapes from s onto the value
\* acc, -1 when one of them is missing or is not a continuation octet
Continuation(s, k, acc) ==
  IF k = 0 THEN acc
  ELSE IF ~IsEscape(s) \/ EscapeByte(s) \notin 128..191 THEN -1
  ELSE Continuation(SubSeq(s, 4, Len(s)), k - 1, acc * 64 + (EscapeByte(s) - 128))

\* the code point of the UTF-8 sequence of n octets at the head of s, -1 when
\* the octets are not a valid encoding
Utf8CodePoint(s, n) ==
  LET b    == EscapeByte(s)
      lead == IF n = 2 THEN b - 192 ELSE IF n = 3 THEN b - 224 ELSE b - 240
      cp   == Continuation(SubSeq(s, 4, Len(s)), n - 1, lead)
      min  == IF n = 2 THEN 128 ELSE IF n = 3 THEN 2048 ELSE 65536
  IN  IF cp < min \/ cp > 1114111 \/ cp \in 55296..57343 THEN -1 ELSE cp

RECURSIVE decodeURIComponent(_)
\* decodeURIComponent: throws URIError on a "%" that does not start a valid
\* escape sequence
decodeURIComponent(s) ==
  IF s = <<>> THEN Returned(<<>>)
  ELSE IF Head(s) # "%"
  THEN LET rest == decodeURIComponent(Tail(s))
       IN  IF rest.ok THEN Returned(<<Head(s)>> \o rest.value) ELSE rest
  ELSE IF ~IsEscape(s) THEN Thrown("URIError")
  ELSE LET n  == Utf8Length(EscapeByte(s))
           cp == IF n = 1 THEN EscapeByte(s)
                 ELSE IF n = 0 THEN -1
                 ELSE Utf8CodePoint(s, n)
       IN  IF cp = -1 THEN Thrown("URIError")
           ELSE LET rest == decodeURIComponent(SubSeq(s, 3 * n + 1, Len(s)))
                IN  IF rest.ok THEN Returned(<<CharOf(cp)>> \o rest.value)
                    ELSE rest

\* the null of a string-valued field
NoText == <<"null">>

\* the literal lit at position p of s, and the same without regard to case
MatchAt(s, p, lit) ==
  /\ p >= 1 /\ p + Len(lit) - 1 <= Len(s)
  /\ \A i \in 1..Len(lit) : s[p + i - 1] = lit[i]

MatchAtNoCase(s, p, lit) ==
  /\ p >= 1 /\ p + Len(lit) - 1 <= Len(s)
  /\ \A i \in 1..Len(lit) : Lower(s[p + i - 1]) = Lower(lit[i])

Base32Alphabet ==
  <<"A", "B", "C", "D", "E", "F", "G", "H", "I", "J", "K", "L", "M", "N", "O",
    "P", "Q", "R", "S", "T", "U", "V", "W", "X", "Y", "Z",
    "2", "3", "4", "5", "6", "7">>

\* [A-Z2-7] under the i flag
IsBase32(c) == Position(Base32Alphabet, Upper(c)) > 0

UrnBtih == <<"u", "r", "n", ":", "b", "t", "i", "h", ":">>

\* the capture of /urn:btih:(CLASS{n})/i in s, NoText when there is no match;
\* hex selects the class [a-fA-F0-9], otherwise [A-Z2-7]
BtihMatch(s, n, hex) ==
  LET Matches(p) ==
        /\ MatchAtNoCase(s, p, UrnBtih)
        /\ p + Len(UrnBtih) + n - 1 <= Len(s)
        /\ \A i \in 0..(n - 1) :
             IF hex THEN IsHex(s[p + Len(UrnBtih) + i])
             ELSE IsBase32(s[p + Len(UrnBtih) + i])
      found == {p \in 1..Len(s) : Matches(p)}
  IN  IF found = {} THEN NoText
      ELSE LET p == CHOOSE q \in found : \A r \in found : q <= r
           IN  SubSeq(s, p + Len(UrnBtih), p + Len(UrnBtih) + n - 1)

\* val.toString(2).padStart(width, '0'), most significant bit first
RECURSIVE Bits(_, _)
Bits(val, width) ==
  IF width = 0 THEN <<>> ELSE Bits(val \div 2, width - 1) \o <<val % 2>>

RECURSIVE Base32Bits(_)
\* the first loop of base32ToHex; a character outside the alphabet is skipped
Base32Bits(s) ==
  IF s = <<>> THEN <<>>
  ELSE LET val == Position(Base32Alphabet, Head(s)) - 1
       IN  (IF val = -1 THEN <<>> ELSE Bits(val, 5)) \o Base32Bits(Tail(s))

RECURSIVE NibblesToHex(_)
\* the second loop of base32ToHex: one hex digit for each full group of 4 bits
NibblesToHex(bits) ==
  IF Len(bits) < 4 THEN <<>>
  ELSE <<HexDigits[bits[1] * 8 + bits[2] * 4 + bits[3] * 2 + bits[4] + 1]>>
         \o NibblesToHex(SubSeq(bits, 5, Len(bits)))

base32ToHex(base32) == NibblesToHex(Base32Bits(toUpperCase(base32)))

RECURSIVE RunUntil(_, _, _)
\* the longest run of characters other than stop in s from position p
RunUntil(s, p, stop) ==
  IF p > Len(s) \/ s[p] = stop THEN <<>>
  ELSE <<s[p]>> \o RunUntil(s, p + 1, stop)

\* /[?&]KEY=([^&]+)/ matches at position p of s
ParamAt(s, p, key) ==
  /\ p <= Len(s) /\ s[p] \in {"?", "&"}
  /\ MatchAt(s, p + 1, key)
  /\ p + Len(key) + 1 <= Len(s)
  /\ s[p + Len(key) + 1] # "&"

RECURSIVE ParamValues(_, _, _)
\* the captures of every match of /[?&]KEY=([^&]+)/g in s from position from,
\* in document order
ParamValues(s, from, key) ==
  LET found == {p \in from..Len(s) : ParamAt(s, p, key)}
  IN  IF found = {} THEN <<>>
      ELSE LET p     == CHOOSE q \in found : \A r \in found : q <= r
               value == RunUntil(s, p + Len(key) + 1, "&")
           IN  <<value>> \o ParamValues(s, p + Len(key) + 1 + Len(value), key)

\* String.prototype.replace(/\+/g, ' ')
PlusToSpace(s) == [i \in 1..Len(s) |-> IF s[i] = "+" THEN " " ELSE s[i]]

RECURSIVE DecodedTrackers(_)
\* the tracker loop of parseMagnetLink: a value that does not decode is skipped
DecodedTrackers(values) ==
  IF values = <<>> THEN <<>>
  ELSE LET d == decodeURIComponent(Head(values))
       IN  (IF d.ok THEN <<d.value>> ELSE <<>>) \o DecodedTrackers(Tail(values))

RECURSIVE Join(_, _)
\* Array.prototype.join
Join(list, sep) ==
  IF list = <<>> THEN <<>>
  ELSE IF Len(list) = 1 THEN Head(list)
  ELSE Head(list) \o <<sep>> \o Join(Tail(list), sep)

DnKey == <<"d", "n", "=">>

TrKey == <<"t", "r", "=">>

\* the result object parseMagnetLink starts from
EmptyMagnet == [infoHash |-> NoText, displayName |-> NoText, trackers |-> <<>>]

\* parseMagnetLink on magnetUri; isString tells whether the argument is a
\* string at all
parseMagnetLink(magnetUri, isString) ==
  IF ~isString \/ magnetUri = <<>> THEN Returned(EmptyMagnet)
  ELSE LET hexMatch    == BtihMatch(magnetUri, 40, TRUE)
           base32Match == BtihMatch(magnetUri, 32, FALSE)
           infoHash    == IF hexMatch # NoText THEN toLowerCase(hexMatch)
                          ELSE IF base32Match # NoText THEN base32ToHex(base32Match)
                          ELSE NoText
           dnMatch     == ParamValues(magnetUri, 1, DnKey)
           dn          == IF dnMatch = <<>> THEN Returned(NoText)
                          ELSE decodeURIComponent(PlusToSpace(Head(dnMatch)))
           trackerList == DecodedTrackers(ParamValues(magnetUri, 1, TrKey))
       IN  IF ~dn.ok THEN dn
           ELSE Returned([infoHash    |-> infoHash,
                          displayName |-> dn.value,
                          trackers    |-> Join(trackerList, "\n")])

\* ---------------------------------------------------------- infohash codec
\* the fixed sizes of an infohash: bytes.length !== 20, hex.length !== 40
HashBytes == 20
HexChars == 40

\* JS null or undefined where a string argument is expected
Undefined == <<"undefined">>
\* JS null or undefined where a byte array is expected
NoBytes == <<-1>>

RECURSIVE HexPrefix(_)
\* the longest run of hexadecimal digits at the head of s
HexPrefix(s) ==
  IF s = <<>> THEN <<>>
  ELSE IF IsHex(Head(s)) THEN <<Head(s)>> \o HexPrefix(Tail(s)) ELSE <<>>

RECURSIVE HexNumber(_, _)
\* the number the hexadecimal digits ds denote, read onto acc
HexNumber(ds, acc) ==
  IF ds = <<>> THEN acc ELSE HexNumber(Tail(ds), acc * 16 + HexVal(Head(ds)))

\* bytes[i / 2] = parseInt(pair, 16): leading white space, an optional sign,
\* an optional 0x, then the longest run of hex digits; NaN, stored as 0, when
\* there is no digit; the store into the Uint8Array keeps the value modulo 256
ParseHexPair(pair) ==
  LET t      == TrimLeft(pair)
      sign   == IF t # <<>> /\ Head(t) \in {"+", "-"} THEN Head(t) ELSE ""
      body   == IF sign = "" THEN t ELSE Tail(t)
      number == IF Len(body) >= 2 /\ body[1] = "0" /\ body[2] \in {"x", "X"}
                THEN SubSeq(body, 3, Len(body)) ELSE body
      ds     == HexPrefix(number)
      val    == HexNumber(ds, 0)
  IN  IF ds = <<>> THEN 0
      ELSE IF sign = "-" THEN (256 - (val % 256)) % 256
      ELSE val % 256

hexToBytesAnyLength(hex) ==
  IF hex = Undefined \/ hex = <<>>
  THEN Thrown("Invalid hex string: must be 40 characters")
  ELSE Returned([i \in 1..HashBytes |->
                   ParseHexPair(SubSeq(hex, 2 * i - 1,
                                       IF 2 * i <= Len(hex) THEN 2 * i ELSE Len(hex)))])

hexToBytes(hex) ==
  IF hex = Undefined \/ hex = <<>> \/ Len(hex) # HexChars
  THEN Thrown("Invalid hex string: must be 40 characters")
  ELSE Returned([i \in 1..HashBytes |->
                   ParseHexPair(SubSeq(hex, 2 * i - 1, 2 * i))])

\* b.toString(16) without the padding
ByteToHexUnpadded(b) ==
  IF b < 16 THEN <<HexDigits[b + 1]>>
  ELSE <<HexDigits[(b \div 16) + 1], HexDigits[(b % 16) + 1]>>

\* b.toString(16).padStart(2, '0')
ByteToHex(b) == <<HexDigits[(b \div 16) + 1], HexDigits[(b % 16) + 1]>>

RECURSIVE HexOfBytes(_)
\* Array.from(bytes).map(...).join('')
HexOfBytes(b) ==
  IF b = <<>> THEN <<>> ELSE ByteToHex(Head(b)) \o HexOfBytes(Tail(b))

bytesToHex(b) ==
  IF b = NoBytes \/ Len(b) # HashBytes
  THEN Thrown("Invalid bytes array: must be 20 bytes")
  ELSE Returned(HexOfBytes(b))

\* isValidInfoHash on a string: /^[a-f0-9]{40}$/i
isValidInfoHash(hash) ==
  /\ hash # Undefined
  /\ Len(hash) = HexChars
  /\ \A i \in 1..Len(hash) : IsHex(hash[i])

\* -------------------------------------------------------- building a magnet
\* the code points outside printable ASCII that the strings of the model are
\* written with: tab, line feed, e-acute, a Devanagari letter, an emoji
Unicode == {9, 10, 233, 2340, 128512}

\* the code point of the character c
CodePoint(c) ==
  IF Position(Ascii, c) > 0 THEN Position(Ascii, c) + 31
  ELSE CHOOSE cp \in Unicode : CharOf(cp) = c

\* the characters encodeURIComponent leaves as they are: A-Z a-z 0-9 - _ . ! ~ * ' ( )
Unreserved(c) ==
  \/ Position(UpperCase, c) > 0 \/ Position(LowerCase, c) > 0 \/ c \in Digits
  \/ c \in {"-", "_", ".", "!", "~", "*", "'", "(", ")"}

\* the octets of the UTF-8 encoding of the code point cp
Utf8Octets(cp) ==
  IF cp < 128 THEN <<cp>>
  ELSE IF cp < 2048 THEN <<192 + (cp \div 64), 128 + (cp % 64)>>
  ELSE IF cp < 65536
  THEN <<224 + (cp \div 4096), 128 + ((cp \div 64) % 64), 128 + (cp % 64)>>
  ELSE <<240 + (cp \div 262144), 128 + ((cp \div 4096) % 64),
         128 + ((cp \div 64) % 64), 128 + (cp % 64)>>

\* "%XY" with capital hexadecimal digits
PercentOctet(b) ==
  <<"%", Upper(HexDigits[(b \div 16) + 1]), Upper(HexDigits[(b % 16) + 1])>>

RECURSIVE PercentOctets(_)
PercentOctets(octets) ==
  IF octets = <<>> THEN <<>>
  ELSE PercentOctet(Head(octets)) \o PercentOctets(Tail(octets))

\* the argument as it is, not encoded
encodeURIComponentRaw(s) == Returned(s)

RECURSIVE encodeURIComponent(_)
\* encodeURIComponent: throws URIError on a lone surrogate
encodeURIComponent(s) ==
  IF s = <<>> THEN Returned(<<>>)
  ELSE LET c    == Head(s)
           rest == encodeURIComponent(Tail(s))
       IN  IF ~Unreserved(c) /\ CodePoint(c) \in 55296..57343 THEN Thrown("URIError")
           ELSE IF ~rest.ok THEN rest
           ELSE IF Unreserved(c) THEN Returned(<<c>> \o rest.value)
           ELSE Returned(PercentOctets(Utf8Octets(CodePoint(c))) \o rest.value)

RECURSIVE Split(_, _)
\* String.prototype.split on the one-character separator sep
Split(s, sep) ==
  IF Position(s, sep) = 0 THEN <<s>>
  ELSE LET first == RunUntil(s, 1, sep)
       IN  <<first>> \o Split(SubSeq(s, Len(first) + 2, Len(s)), sep)

RECURSIVE NonEmptyTrimmed(_)
\* .map(t => t.trim()).filter(t => t.length > 0)
NonEmptyTrimmed(list) ==
  IF list = <<>> THEN <<>>
  ELSE (IF Trim(Head(list)) = <<>> THEN <<>> ELSE <<Trim(Head(list))>>)
         \o NonEmptyTrimmed(Tail(list))

RECURSIVE EncodedParams(_, _)
\* "&KEY=" and encodeURIComponent(value) for each value of the list; the
\* outcome throws when an encoding does
EncodedParams(key, values) ==
  IF values = <<>> THEN Returned(<<>>)
  ELSE LET e    == encodeURIComponent(Head(values))
           rest == EncodedParams(key, Tail(values))
       IN  IF ~e.ok THEN e
           ELSE IF ~rest.ok THEN rest
           ELSE Returned(<<"&">> \o key \o e.value \o rest.value)

\* the prefix `magnet:?xt=urn:btih:`
MagnetPrefix ==
  <<"m", "a", "g", "n", "e", "t", ":", "?", "x", "t", "=",
    "u", "r", "n", ":", "b", "t", "i", "h", ":">>

\* an infoHash argument: a Uint8Array, a string, or a value of another type
BytesArg(b) == [type |-> "Uint8Array", bytes |-> b, text |-> <<>>]
StringArg(s) == [type |-> "string", bytes |-> <<>>, text |-> s]
OtherArg == [type |-> "other", bytes |-> <<>>, text |-> <<>>]

buildMagnetUri(infoHash, displayName, trackers) ==
  LET hashHex == IF infoHash.type = "Uint8Array" THEN bytesToHex(infoHash.bytes)
                 ELSE IF infoHash.type = "string"
                 THEN Returned(toLowerCase(infoHash.text))
                 ELSE Thrown("Invalid infoHash type")
      dn      == IF displayName = NoText \/ displayName = <<>> THEN Returned(<<>>)
                 ELSE EncodedParams(DnKey, <<displayName>>)
      tr      == IF trackers = NoText \/ trackers = <<>> THEN Returned(<<>>)
                 ELSE EncodedParams(TrKey, NonEmptyTrimmed(Split(trackers, "\n")))
  IN  IF ~hashHex.ok THEN hashHex
      ELSE IF ~dn.ok THEN dn
      ELSE IF ~tr.ok THEN tr
      ELSE Returned(MagnetPrefix \o hashHex.value \o dn.value \o tr.value)

\* ---------------------------------------------------------- tracker input
\* the characters of the separator class [\n,]
TrackerSeparators == {"\n", ","}

RECURSIVE SkipSeparators(_)
SkipSeparators(s) ==
  IF s # <<>> /\ Head(s) \in TrackerSeparators THEN SkipSeparators(Tail(s)) ELSE s

RECURSIVE RunBeforeSeparator(_)
RunBeforeSeparator(s) ==
  IF s = <<>> \/ Head(s) \in TrackerSeparators THEN <<>>
  ELSE <<Head(s)>> \o RunBeforeSeparator(Tail(s))

RECURSIVE SplitOnSeparators(_)
\* input.split(/[\n,]+/): a run of separators splits once, a separator at
\* either end leaves an empty string there
SplitOnSeparators(s) ==
  LET first == RunBeforeSeparator(s)
  IN  IF Len(first) = Len(s) THEN <<s>>
      ELSE <<first>> \o SplitOnSeparators(SkipSeparators(SubSeq(s, Len(first) + 1, Len(s))))

TrackerSchemes ==
  {<<"u", "d", "p", ":", "/", "/">>,
   <<"h", "t", "t", "p", ":", "/", "/">>,
   <<"h", "t", "t", "p", "s", ":", "/", "/">>,
   <<"w", "s", "s", ":", "/", "/">>}

\* t.startsWith('udp://') || t.startsWith('http://') || ...
HasTrackerScheme(t) == \E scheme \in TrackerSchemes : MatchAt(t, 1, scheme)

RECURSIVE TrimmedTrackers(_)
\* .map(t => t.trim()).filter(t => t.length > 0 && (...))
TrimmedTrackers(list) ==
  IF list = <<>> THEN <<>>
  ELSE LET t == Trim(Head(list))
       IN  (IF t # <<>> /\ HasTrackerScheme(t) THEN <<t>> ELSE <<>>)
             \o TrimmedTrackers(Tail(list))

\* the list as it is, duplicates kept
DeduplicateNothing(list) == list

RECURSIVE Deduplicate(_)
\* [...new Set(trackers)]: the first occurrence of each element, in order
Deduplicate(list) ==
  IF list = <<>> THEN <<>>
  ELSE LET init == Deduplicate(SubSeq(list, 1, Len(list) - 1))
           last == list[Len(list)]
       IN  IF Position(init, last) > 0 THEN init ELSE Append(init, last)

\* parseTrackersInput; Undefined stands for an argument that is not a string
parseTrackersInput(input) ==
  IF input = Undefined \/ input = <<>> THEN Returned(<<>>)
  ELSE Returned(Deduplicate(TrimmedTrackers(SplitOnSeparators(input))))

\* ------------------------------------------------------ document submission
\* a number-valued field that is not there (NaN is deleted)
NoNumber == [isNaN |-> TRUE, neg |-> FALSE, digits |-> <<>>]

\* data.infoHash = Array.from(hexToBytes(formData.infoHash)) when the field is
\* filled in; the outcome throws when hexToBytes does
InfoHashField(str) ==
  IF str = Undefined \/ str = <<>> THEN Returned(NoBytes) ELSE hexToBytes(str)

\* the typed-ID field copied as it was typed
ImdbFieldUnparsed(str) ==
  IF str = Undefined \/ str = <<>> THEN NullId ELSE str

\* if (formData.imdbId) data.imdbId = parseImdbId(formData.imdbId), and the
\* same for seriesImdbId; null is deleted at the end
ImdbField(str) ==
  IF str = Undefined \/ str = <<>> THEN NullId ELSE parseImdbId(str)

\* if (formData.workId) data.workId = parseWorkId(formData.workId)
WorkField(str) ==
  IF str = Undefined \/ str = <<>> THEN NullId ELSE parseWorkId(str)

\* if (formData.sizeBytes) data.sizeBytes = parseInt(formData.sizeBytes, 10)
SizeField(str) ==
  IF str = Undefined \/ str = <<>> \/ parseInt(str).isNaN THEN NoNumber
  ELSE parseInt(str)

\* a text field, trimmed, when it is filled in
TextField(str) ==
  IF str = Undefined \/ str = <<>> THEN Undefined ELSE Trim(str)

\* data.trackers: the parsed list joined by line feeds, when it is not empty
TrackersField(str) ==
  IF str = Undefined \/ str = <<>> THEN Undefined
  ELSE LET trackers == parseTrackersInput(str).value
       IN  IF Len(trackers) > 0 THEN Join(trackers, "\n") ELSE Undefined

\* prepareDocumentData; a field the data object lacks holds the null of its
\* kind (NoBytes, Undefined, NullId, NoNumber)
prepareDocumentData(docType, formData) ==
  LET infoHash == InfoHashField(formData.infoHash)
      sized    == docType \in {"movie", "tv", "book", "iso", "other"}
  IN  IF ~infoHash.ok THEN infoHash
      ELSE Returned(
        [infoHash     |-> infoHash.value,
         torrentName  |-> TextField(formData.torrentName),
         trackers     |-> TrackersField(formData.trackers),
         imdbId       |-> IF docType = "movie" THEN ImdbField(formData.imdbId)
                          ELSE NullId,
         seriesImdbId |-> IF docType = "tv" THEN ImdbField(formData.seriesImdbId)
                          ELSE NullId,
         workId       |-> IF docType = "book" THEN WorkField(formData.workId)
                          ELSE NullId,
         title        |-> IF docType \in {"iso", "other"} THEN TextField(formData.title)
                          ELSE Undefined,
         sizeBytes    |-> IF sized THEN SizeField(formData.sizeBytes) ELSE NoNumber])

\* the error messages of validateDocumentData, in the order it pushes them
validateDocumentData(docType, data) ==
  LET errors ==
        (IF data.infoHash = NoBytes \/ Len(data.infoHash) # HashBytes
         THEN <<"Invalid or missing infoHash (must be 40-char hex)">> ELSE <<>>)
        \o (IF data.torrentName = Undefined \/ Len(data.torrentName) = 0
            THEN <<"Torrent name is required">> ELSE <<>>)
        \o (IF docType = "movie" /\ data.imdbId = NullId
            THEN <<"IMDB ID is required (e.g., tt0133093)">> ELSE <<>>)
        \o (IF docType = "tv" /\ data.seriesImdbId = NullId
            THEN <<"Series IMDB ID is required (e.g., tt0903747)">> ELSE <<>>)
        \o (IF docType = "book" /\ data.workId = NullId
            THEN <<"OpenLibrary Work ID is required (e.g., OL8483260W)">> ELSE <<>>)
        \o (IF docType \in {"iso", "other"}
               /\ (data.title = Undefined \/ data.title = <<>>)
            THEN <<"Title is required">> ELSE <<>>)
  IN  [valid |-> errors = <<>>, errors |-> errors]

\* ---------------------------------------------------- contract registration
\* a string result longer than this is taken for the contract ID
MinIdLength == 30

\* the result of contracts.create that is undefined
NoResult ==
  [kind |-> "undefined", text |-> <<>>, dataContractId |-> Undefined,
   contractId |-> Undefined, id |-> Undefined,
   dataContract |-> [given |-> FALSE, id |-> Undefined, dollarId |-> Undefined]]

\* result.dataContractId || result.contractId || result.id ||
\* result.dataContract?.id || result.dataContract?.$id
PossibleId(result) ==
  IF result.dataContractId # Undefined THEN result.dataContractId
  ELSE IF result.contractId # Undefined THEN result.contractId
  ELSE IF result.id # Undefined THEN result.id
  ELSE IF result.dataContract.given /\ result.dataContract.id # Undefined
  THEN result.dataContract.id
  ELSE IF result.dataContract.given THEN result.dataContract.dollarId
  ELSE Undefined

\* the generated ID whatever the store returned
FinalContractIdGenerated(contractId, result) == contractId

\* finalContractId of registerContract
FinalContractId(contractId, result) ==
  IF result.kind = "object" /\ PossibleId(result) # Undefined
       /\ PossibleId(result) # contractId
  THEN PossibleId(result)
  ELSE IF result.kind = "string" /\ Len(result.text) > MinIdLength
  THEN result.text
  ELSE contractId

\* ----------------------------------------------------------------- SHA-256
\* crypto.subtle.digest('SHA-256', data), as FIPS 180-4 defines the digest.
\* A word is a sequence of 32 bits, most significant bit first; a constant is
\* written as its two 16-bit halves.
WordBits == 32
HalfWord == 65536
BlockBits == 512
LengthBits == 64
DigestBytes == 32

\* the number the four bits of b from position p denote
Nibble(b, p) == 8 * b[p] + 4 * b[p + 1] + 2 * b[p + 2] + b[p + 3]

\* the number the eight bits of b from position p denote
Octet(b, p) == 16 * Nibble(b, p) + Nibble(b, p + 4)

\* the number the sixteen bits of b from position p denote
Half(b, p) == 256 * Octet(b, p) + Octet(b, p + 8)

\* the width bits of val, most significant bit first
BitsOf(val, width) == [i \in 1..width |-> (val \div 2 ^ (width - i)) % 2]

Word(halves) ==
  Only({BitsOf(h[1], 16) \o BitsOf(h[2], 16) : h \in {halves}})

\* the initial hash value: the fractional parts of the square roots of the
\* first eight primes
Sha256H ==
  <<
    <<27145, 58983>>, <<47975, 44677>>, <<15470, 62322>>, <<42319, 62778>>,
    <<20750, 21119>>, <<39685, 26764>>, <<8067, 55723>>, <<23520, 52505>>
  >>

\* the round constants: the fractional parts of the cube roots of the first
\* sixty-four primes
Sha256K ==
  <<
    <<17034, 12184>>, <<28983, 17553>>, <<46528, 64463>>, <<59829, 56229>>,
    <<14678, 49755>>, <<23025, 4593>>, <<37439, 33444>>, <<43804, 24277>>,
    <<55303, 43672>>, <<4739, 23297>>, <<9265, 34238>>, <<21772, 32195>>,
    <<29374, 23924>>, <<32990, 45566>>, <<39900, 1703>>, <<49563, 61812>>,
    <<58523, 27073>>, <<61374, 18310>>, <<4033, 40390>>, <<9228, 41420>>,
    <<11753, 11375>>, <<19060, 33962>>, <<23728, 43484>>, <<30457, 35034>>,
    <<38974, 20818>>, <<43057, 50797>>, <<45059, 10184>>, <<48985, 32711>>,
    <<50912, 3059>>, <<54695, 37191>>, <<1738, 25425>>, <<5161, 10599>>,
    <<10167, 2693>>, <<11803, 8504>>, <<19756, 28156>>, <<21304, 3347>>,
    <<25866, 29524>>, <<30314, 2747>>, <<33218, 51502>>, <<37490, 11397>>,
    <<41663, 59553>>, <<43034, 26187>>, <<49739, 35696>>, <<51052, 20899>>,
    <<53650, 59417>>, <<54937, 1572>>, <<62478, 13701>>, <<4202, 41072>>,
    <<6564, 49430>>, <<7735, 27656>>, <<10056, 30540>>, <<13488, 48309>>,
    <<14620, 3251>>, <<20184, 43594>>, <<23452, 51791>>, <<26670, 28659>>,
    <<29839, 33518>>, <<30885, 25455>>, <<33992, 30740>>, <<36039, 520>>,
    <<37054, 65530>>, <<42064, 27883>>, <<48889, 41975>>, <<50801, 30962>>
  >>

\* the word whose bit i is bit[i]
Bitwise(bit) == SubSeq(bit, 1, WordBits)

ROTR(x, n) ==
  Bitwise([i \in 1..WordBits |-> x[((i - 1 - n + WordBits) % WordBits) + 1]])

SHR(x, n) == Bitwise([i \in 1..WordBits |-> IF i <= n THEN 0 ELSE x[i - n]])

Xor3(x, y, z) ==
  Only({Bitwise([i \in 1..WordBits |-> (a[i] + b[i] + c[i]) % 2]) :
          a \in {x}, b \in {y}, c \in {z}})

Ch(x, y, z) ==
  Bitwise([i \in 1..WordBits |-> IF x[i] = 1 THEN y[i] ELSE z[i]])

Maj(x, y, z) ==
  Bitwise([i \in 1..WordBits |-> IF x[i] + y[i] + z[i] >= 2 THEN 1 ELSE 0])

BigSigma0(x) == Xor3(ROTR(x, 2), ROTR(x, 13), ROTR(x, 22))

BigSigma1(x) == Xor3(ROTR(x, 6), ROTR(x, 11), ROTR(x, 25))

SmallSigma0(x) == Xor3(ROTR(x, 7), ROTR(x, 18), SHR(x, 3))

SmallSigma1(x) == Xor3(ROTR(x, 17), ROTR(x, 19), SHR(x, 10))

RECURSIVE SumHalves(_, _, _)
\* the sum of the 16-bit halves of the words ws that start at bit from
SumHalves(ws, from, k) ==
  IF k > Len(ws) THEN 0
  ELSE Half(ws[k], from) + SumHalves(ws, from, k + 1)

\* the sum of the words ws modulo 2^32: the low halves, then the high halves
\* and the carry of the low ones
AddWords(ws) ==
  Only({Only({Only({Word(<<hi % HalfWord, lo % HalfWord>>) :
                      hi \in {SumHalves(w, 1, 1) + lo \div HalfWord}}) :
                lo \in {SumHalves(w, 17, 1)}}) :
          w \in {ws}})

\* the word that follows the words w of a message schedule
NextWord(w) ==
  AddWords(<<SmallSigma1(w[Len(w) - 1]), w[Len(w) - 6],
             SmallSigma0(w[Len(w) - 14]), w[Len(w) - 15]>>)

RECURSIVE Extended(_, _)
\* the next n words appended to the words w of a message schedule: the
\* first half of them, then the rest
Extended(w, n) ==
  IF n = 0 THEN w
  ELSE IF n = 1 THEN Append(w, NextWord(w))
  ELSE Only({Extended(first, n - n \div 2) :
               first \in {Extended(w, n \div 2)}})

\* the message schedule of a block of sixteen words: sixty-four words
Schedule(block) == Only({Extended(w, 64 - Len(w)) : w \in {block}})

\* one round on the working variables a..h, kept in s[1]..s[8], with the
\* round constant kt and the schedule word wt
Round(s, kt, wt) ==
  Only({<<AddWords(<<t1, t2>>), s[1], s[2], s[3],
          AddWords(<<s[4], t1>>), s[5], s[6], s[7]>> :
          t1 \in {AddWords(<<s[8], BigSigma1(s[5]), Ch(s[5], s[6], s[7]),
                             kt, wt>>)},
          t2 \in {AddWords(<<BigSigma0(s[1]), Maj(s[1], s[2], s[3])>>)}})

RECURSIVE Rounds(_, _, _, _)
\* the working variables v after the rounds from..to of the schedule w: the
\* first half of them, then the rest
Rounds(v, w, from, to) ==
  IF from = to THEN Round(v, Word(Sha256K[from]), w[from])
  ELSE Only({Rounds(s, w, (from + to) \div 2 + 1, to) :
               s \in {Rounds(v, w, from, (from + to) \div 2)}})

\* the hash value after the block of sixteen words: the schedule, the
\* sixty-four rounds, and the sums
Compress(hash, block) ==
  Only({Only({<<AddWords(<<hash[1], v[1]>>), AddWords(<<hash[2], v[2]>>),
                AddWords(<<hash[3], v[3]>>), AddWords(<<hash[4], v[4]>>),
                AddWords(<<hash[5], v[5]>>), AddWords(<<hash[6], v[6]>>),
                AddWords(<<hash[7], v[7]>>), AddWords(<<hash[8], v[8]>>)>> :
                v \in {Rounds(hash, w, 1, Len(w))}}) :
          w \in {Schedule(block)}})

\* the bits of the bytes of data, in order
BytesBits(data) ==
  [i \in 1..(8 * Len(data)) |->
    (data[((i - 1) \div 8) + 1] \div 2 ^ (7 - ((i - 1) % 8))) % 2]

\* the message, a 1 bit, zero bits up to 64 bits short of a whole number of
\* blocks, and the length of the message in bits (below 2^32 for every array
\* a page can hold)
Padded(data) ==
  LET len == 8 * Len(data)
      zeros == (BlockBits - ((len + 1 + LengthBits) % BlockBits)) % BlockBits
  IN  BytesBits(data) \o <<1>> \o [i \in 1..zeros |-> 0]
        \o [i \in 1..(LengthBits - WordBits) |-> 0]
        \o Word(<<len \div HalfWord, len % HalfWord>>)

\* the sixteen words of block k of the padded message bits
Block(bits, k) ==
  SubSeq([i \in 1..(BlockBits \div WordBits) |->
           SubSeq(bits, BlockBits * (k - 1) + WordBits * (i - 1) + 1,
                  BlockBits * (k - 1) + WordBits * i)],
         1, BlockBits \div WordBits)

RECURSIVE HashBlocks(_, _, _)
\* the hash value after the blocks k.. of the padded message bits
HashBlocks(hash, bits, k) ==
  IF BlockBits * k > Len(bits) THEN hash
  ELSE Only({HashBlocks(next, bits, k + 1) :
               next \in {Compress(hash, Block(bits, k))}})

\* the bytes of the eight words of a hash value
DigestOf(hash) ==
  SubSeq([i \in 1..DigestBytes |->
           Octet(hash[((i - 1) \div 4) + 1], 8 * ((i - 1) % 4) + 1)],
         1, DigestBytes)

\* the initial hash value, as words
InitialHash == SubSeq([i \in 1..8 |-> Word(Sha256H[i])], 1, 8)

\* new Uint8Array(hashBuffer): the 32 bytes of the digest
sha256(data) ==
  Only({Only({DigestOf(hash) : hash \in {HashBlocks(InitialHash, bits, 1)}}) :
          bits \in {Only({Padded(input) : input \in {data}})}})

doubleSha256(data) == sha256(sha256(data))

\* --------------------------------------------------------- contract ID
\* combined.set(ownerIdBytes, 0); combined.set(entropy, ownerIdBytes.length)
Combined(ownerIdBytes, entropy) ==
  Only({SubSeq([i \in 1..(Len(owner) + Len(entropy)) |->
                 IF i <= Len(owner) THEN owner[i]
                 ELSE entropy[i - Len(owner)]],
               1, Len(owner) + Len(entropy)) :
          owner \in {ownerIdBytes}})

\* a derivation that hashes once
generateContractIdHashedOnce(ownerIdBase58, entropy) ==
  Only({IF ~ownerIdBytes.ok THEN ownerIdBytes
        ELSE Returned(base58Encode(
                        sha256(Combined(ownerIdBytes.value, entropy)))) :
          ownerIdBytes \in {base58Decode(ownerIdBase58)}})

generateContractId(ownerIdBase58, entropy) ==
  Only({IF ~ownerIdBytes.ok THEN ownerIdBytes
        ELSE Returned(base58Encode(
                        doubleSha256(Combined(ownerIdBytes.value, entropy)))) :
          ownerIdBytes \in {base58Decode(ownerIdBase58)}})

\* ------------------------------------------------------------------- state
VARIABLES
  CONFIG,         \* browse-config.js CONFIG (contractId, network)
  activeTab,      \* browse-ui.js module state
  currentPage,
  pageHistory,
  currentCursor,
  lastResults,
  isSearchMode,
  searchQuery,
  ui,             \* the DOM elements the browse handlers write
  sdk,            \* SdkClient fields
  network,
  connected,
  connecting,
  connectTarget,  \* the network argument of the connect call that is awaiting
  inflight,       \* store queries awaiting their response, in issue order
  resultsPage,    \* history: the page the query that filled lastResults asked for
  before,         \* history: the QueryState before the navigation action whose
                  \* query is awaited, the current QueryState when none is
  lastOp,         \* history: the handler that ran last
  bytes,          \* the byte array handed to a utils.js function
  text,           \* the string handed to or returned by a utils.js function
  args,           \* the other arguments of the utils.js or SdkClient call
  created,        \* the arguments of the documents.create calls made so far
  out,            \* the outcome of the last utils.js call
  step            \* the position of the utils.js call sequence

queryVars == <<activeTab, currentPage, pageHistory, currentCursor,
               isSearchMode, searchQuery>>
sdkVars == <<sdk, network, connected, connecting, connectTarget>>
utilVars == <<bytes, text, args, created, out, step>>
browseVars == <<CONFIG, activeTab, currentPage, pageHistory, currentCursor,
                lastResults, isSearchMode, searchQuery, ui, sdk, network,
                connected, connecting, connectTarget, inflight, resultsPage,
                before, lastOp>>
vars == <<CONFIG, activeTab, currentPage, pageHistory, currentCursor,
          lastResults, isSearchMode, searchQuery, ui, sdk, network, connected,
          connecting, connectTarget, inflight, resultsPage, before, lastOp,
          bytes, text, args, created, out, step>>

\* the QueryState of the engine, as one value
QueryState ==
  [activeTab |-> activeTab, currentPage |-> currentPage,
   pageHistory |-> pageHistory, currentCursor |-> currentCursor,
   isSearchMode |-> isSearchMode, searchQuery |-> searchQuery]

\* ------------------------------------------------------- the external store
\* a page of n records as the store returns it; a record carries its
\* identifier and the length of its infoHash byte array
Docs(base, n) == [i \in 1..n |-> [id |-> base + i, hashLen |-> 20]]

\* the pages the store answers with: a short page and a full page
Responses == {Docs(0, n) : n \in {ShortLen, PageSize}}

\* a page whose first record has a 19-byte infoHash
BadDocs(base, n) ==
  [i \in 1..n |-> [id |-> base + i, hashLen |-> IF i = 1 THEN 19 ELSE 20]]

\* the answers of a store that also returns no record at all, and a record
\* with a malformed infoHash
AllResponses == Responses \cup {Docs(0, 0), BadDocs(0, ShortLen)}

\* ---------------------------------------------------------------- DOM state
InitialUi ==
  [loading |-> FALSE, empty |-> FALSE, error |-> FALSE, grid |-> <<>>,
   pagination |-> FALSE, prevDisabled |-> TRUE, nextDisabled |-> TRUE]

showLoading(u) ==
  [u EXCEPT !.loading = TRUE, !.grid = <<>>, !.empty = FALSE, !.error = FALSE]

\* a showError that leaves the empty indicator as it is
showErrorKeepsEmpty(u) ==
  [u EXCEPT !.loading = FALSE, !.error = TRUE]

showError(u) ==
  [u EXCEPT !.loading = FALSE, !.empty = FALSE, !.error = TRUE]

updatePaginationUI(u, results, page) ==
  [u EXCEPT !.pagination = Len(results) > 0,
            !.prevDisabled = ~(page > 1),
            !.nextDisabled = ~(Len(results) >= PageSize)]

\* formatDocument throws (through bytesToHex) on a record whose infoHash
\* array is not 20 bytes long
RenderThrows(documents) ==
  \E i \in 1..Len(documents) : documents[i].hashLen # 20

RECURSIVE RenderedPrefix(_)
\* the cards appended to the grid before createTorrentCard throws
RenderedPrefix(documents) ==
  IF documents = <<>> \/ Head(documents).hashLen # 20 THEN <<>>
  ELSE <<Head(documents)>> \o RenderedPrefix(Tail(documents))

\* a renderResults that reports a page without records as an error
renderResultsEmptyAsError(u, documents) ==
  IF Len(documents) = 0
  THEN [u EXCEPT !.loading = FALSE, !.error = TRUE, !.empty = FALSE,
                 !.pagination = FALSE]
  ELSE [u EXCEPT !.loading = FALSE, !.error = FALSE, !.empty = FALSE,
                 !.grid = RenderedPrefix(documents)]

renderResults(u, documents) ==
  IF Len(documents) = 0
  THEN [u EXCEPT !.loading = FALSE, !.error = FALSE, !.empty = TRUE,
                 !.pagination = FALSE]
  ELSE [u EXCEPT !.loading = FALSE, !.error = FALSE, !.empty = FALSE,
                 !.grid = RenderedPrefix(documents)]

\* ------------------------------------------------------------ query building
NoWhere == [field |-> "", op |-> "", value |-> <<>>]

\* a where clause that compares every search field with the raw term
buildWhereClauseRaw(tab, query) ==
  [field |-> TAB_CONFIG[tab].searchField, op |-> "==", value |-> query]

\* a where clause that falls back to a prefix match on the search field when
\* the term is not a typed ID
buildWhereClausePrefix(tab, query) ==
  LET field == TAB_CONFIG[tab].searchField
      parsed == IF field = "workId" THEN parseWorkId(query) ELSE parseImdbId(query)
  IN  IF field = "title" \/ parsed = NullId
      THEN [field |-> field, op |-> "startsWith", value |-> query]
      ELSE [field |-> field, op |-> "==", value |-> parsed]

buildWhereClause(tab, query) ==
  LET field == TAB_CONFIG[tab].searchField
  IN  IF field \in {"imdbId", "seriesImdbId"}
      THEN LET imdbNum == parseImdbId(query)
           IN  IF imdbNum # NullId
               THEN [field |-> field, op |-> "==", value |-> imdbNum]
               ELSE NoWhere
      ELSE IF field = "workId"
      THEN LET workNum == parseWorkId(query)
           IN  IF workNum # NullId
               THEN [field |-> field, op |-> "==", value |-> workNum]
               ELSE NoWhere
      ELSE IF field = "title"
      THEN [field |-> field, op |-> "startsWith", value |-> query]
      ELSE NoWhere

\* the options object loadCurrentTab builds
QueryOptions(tab, page, cursor, mode, query) ==
  [limit      |-> PageSize,
   orderBy    |-> <<TAB_CONFIG[tab].indexField, "asc">>,
   startAfter |-> IF cursor # Null /\ page > 1 THEN cursor ELSE Null,
   where      |-> IF mode /\ query # <<>> THEN buildWhereClause(tab, query)
                  ELSE NoWhere]

\* the queryParams object SdkClient.queryDocuments hands to sdk.documents.query;
\* it copies contractId, type, limit, where and orderBy, and nothing else, so
\* the store never sees a startAfter
QueryParams(contractId, documentType, options) ==
  [contractId |-> contractId,
   type       |-> documentType,
   limit      |-> IF options.limit # 0 THEN options.limit ELSE DefaultLimit,
   where      |-> options.where,
   orderBy    |-> options.orderBy,
   startAfter |-> Null]

\* an isReady that looks at the sdk instance only
isReadyWithInstance == sdk # NoSdk

isReady == connected /\ sdk # NoSdk

\* the history variable before after a navigation action that leaves the
\* QueryState after: the state it started from while its query is awaited,
\* the state it produced when it issued no query
Before(after) == IF isReady THEN QueryState ELSE after

\* a store query in flight: what the store received (params), what the engine
\* asked for (options), and history fields: the page it was issued for, whether
\* a navigation action issued it, and whether a later navigation action has
\* superseded it
Request(cfg, tab, page, cursor, mode, query, nav) ==
  LET options == QueryOptions(tab, page, cursor, mode, query)
  IN  [params  |-> QueryParams(cfg.contractId, tab, options),
       options |-> options,
       page    |-> page,
       nav     |-> nav,
       stale   |-> FALSE]

Superseded(q) == [i \in 1..Len(q) |-> [q[i] EXCEPT !.stale = TRUE]]

RemoveAt(q, i) == SubSeq(q, 1, i - 1) \o SubSeq(q, i + 1, Len(q))

\* the handler that ran, whether it took its effective (state-changing)
\* branch, and for a query completion the history fields of the query
Op(name, effective, nav, stale) ==
  [op |-> name, effective |-> effective, nav |-> nav, stale |-> stale,
   type |-> ""]

\* the completion of request r: its history fields and the collection it asked
Completed(name, r) ==
  [op |-> name, effective |-> FALSE, nav |-> r.nav, stale |-> r.stale,
   type |-> r.params.type]

\* -------------------------------------------------------------------- Init
\* the browse page after initBrowseUI, before any settings are saved
\* the SdkClient constructor
SdkInit ==
  /\ sdk = NoSdk
  /\ network = "testnet"
  /\ connected = FALSE
  /\ connecting = FALSE
  /\ connectTarget = NoSetting

\* the module state of browse-ui.js
PageInit ==
  /\ CONFIG = CONFIG_DEFAULT
  /\ activeTab = CONFIG_DEFAULT.defaultTab
  /\ currentPage = 1
  /\ pageHistory = <<>>
  /\ currentCursor = Null
  /\ lastResults = <<>>
  /\ isSearchMode = FALSE
  /\ searchQuery = <<>>
  /\ ui = InitialUi
  /\ inflight = <<>>
  /\ resultsPage = 0
  /\ before = QueryState
  /\ lastOp = Op("init", FALSE, FALSE, FALSE)

BrowseInit == PageInit /\ SdkInit

\* no utils.js call under way
\* no further argument
NoArgs == [call |-> "none"]

UtilIdle ==
  /\ bytes = <<>>
  /\ text = <<>>
  /\ args = NoArgs
  /\ created = <<>>
  /\ out = Returned(<<>>)
  /\ step = "idle"

Init == BrowseInit /\ UtilIdle

\* ------------------------------------------------------------ loadCurrentTab
\* loadCurrentTab without the isReady check of its first lines
loadCurrentTabUnguarded(cfg, tab, page, cursor, mode, query, u, pending, ready, nav) ==
  /\ inflight' = Append(pending,
                        Request(cfg, tab, page, cursor, mode, query, nav))
  /\ ui' = showLoading(u)

\* loadCurrentTab run on the configuration cfg, the query state (tab, page,
\* cursor, mode, query) and the DOM state u that the caller has just produced;
\* pending is the queue of requests still awaiting, ready the value of
\* sdkClient.isReady()
loadCurrentTab(cfg, tab, page, cursor, mode, query, u, pending, ready, nav) ==
  IF ~ready
  THEN /\ inflight' = pending
       /\ ui' = u
  ELSE /\ inflight' = Append(pending,
                             Request(cfg, tab, page, cursor, mode, query, nav))
       /\ ui' = showLoading(u)

CanIssue == Len(inflight) < MaxInFlight

\* --------------------------------------------------------- navigation actions
\* a reset that goes back to page 1 and keeps the cursor stack and the cursor
ResetKeepsCursorAndLoad(tab, mode, query) ==
  /\ currentPage' = 1
  /\ UNCHANGED <<pageHistory, currentCursor>>
  /\ lastResults' = <<>>
  /\ resultsPage' = 0
  /\ before' = Before([activeTab |-> tab, currentPage |-> 1,
                        pageHistory |-> pageHistory,
                        currentCursor |-> currentCursor,
                        isSearchMode |-> mode, searchQuery |-> query])
  /\ loadCurrentTab(CONFIG, tab, 1, currentCursor, mode, query,
                    updatePaginationUI(ui, <<>>, 1),
                    Superseded(inflight), isReady, TRUE)

\* resetPagination followed by loadCurrentTab, the common tail of switchTab,
\* handleSearch and clearSearch
ResetAndLoad(tab, mode, query) ==
  /\ currentPage' = 1
  /\ pageHistory' = <<>>
  /\ currentCursor' = Null
  /\ lastResults' = <<>>
  /\ resultsPage' = 0
  /\ before' = Before([activeTab |-> tab, currentPage |-> 1,
                        pageHistory |-> <<>>, currentCursor |-> Null,
                        isSearchMode |-> mode, searchQuery |-> query])
  /\ loadCurrentTab(CONFIG, tab, 1, Null, mode, query,
                    updatePaginationUI(ui, <<>>, 1),
                    Superseded(inflight), isReady, TRUE)

\* a click on a tab: the listener calls switchTab only for another tab
switchTab(docType) ==
  /\ CanIssue
  /\ IF docType # activeTab
     THEN /\ activeTab' = docType
          /\ isSearchMode' = FALSE
          /\ searchQuery' = <<>>
          /\ ResetAndLoad(docType, FALSE, <<>>)
          /\ lastOp' = Op("switchTab", TRUE, FALSE, FALSE)
     ELSE /\ lastOp' = Op("switchTab", FALSE, FALSE, FALSE)
          /\ UNCHANGED <<queryVars, lastResults, resultsPage, ui, inflight, before>>
  /\ UNCHANGED <<utilVars, CONFIG, sdkVars>>

clearSearch ==
  /\ CanIssue
  /\ searchQuery' = <<>>
  /\ isSearchMode' = FALSE
  /\ ResetAndLoad(activeTab, FALSE, <<>>)
  /\ lastOp' = Op("clearSearch", TRUE, FALSE, FALSE)
  /\ UNCHANGED <<utilVars, CONFIG, activeTab, sdkVars>>

\* input is the text of the search box
handleSearch(input) ==
  LET query == Trim(input)
  IN  /\ CanIssue
      /\ IF query = <<>>
         THEN /\ searchQuery' = <<>>
              /\ isSearchMode' = FALSE
              /\ ResetAndLoad(activeTab, FALSE, <<>>)
         ELSE /\ searchQuery' = query
              /\ isSearchMode' = TRUE
              /\ ResetAndLoad(activeTab, TRUE, query)
      /\ lastOp' = Op("handleSearch", TRUE, FALSE, FALSE)
      /\ UNCHANGED <<utilVars, CONFIG, activeTab, sdkVars>>

\* a guard that stops loadNextPage on an empty page only
NoMoreResultsOnlyWhenEmpty == Len(lastResults) = 0

\* the guard of loadNextPage
NoMoreResults == Len(lastResults) < PageSize

loadNextPage ==
  /\ CanIssue
  /\ IF NoMoreResults
     THEN /\ lastOp' = Op("loadNextPage", FALSE, FALSE, FALSE)
          /\ UNCHANGED <<queryVars, ui, inflight, before>>
     ELSE LET lastDoc == lastResults[Len(lastResults)]
              cursor  == IF Len(lastResults) > 0 THEN lastDoc.id ELSE currentCursor
          IN  /\ currentPage < MaxPage
              /\ pageHistory' = Append(pageHistory, currentCursor)
              /\ currentCursor' = cursor
              /\ currentPage' = currentPage + 1
              /\ loadCurrentTab(CONFIG, activeTab, currentPage + 1, cursor,
                                isSearchMode, searchQuery, ui,
                                Superseded(inflight), isReady, TRUE)
              /\ lastOp' = Op("loadNextPage", TRUE, FALSE, FALSE)
              /\ before' = Before([QueryState EXCEPT
                                      !.pageHistory = Append(pageHistory, currentCursor),
                                      !.currentCursor = cursor,
                                      !.currentPage = currentPage + 1])
              /\ UNCHANGED <<activeTab, isSearchMode, searchQuery>>
  /\ UNCHANGED <<utilVars, CONFIG, lastResults, resultsPage, sdkVars>>

\* a pop that always yields undefined
PopUndefined(stack) == Null

\* Array.prototype.pop on the cursor stack: the removed element, or undefined
Pop(stack) == IF stack = <<>> THEN Null ELSE stack[Len(stack)]

\* a pop that reads the top of the stack and leaves it in place
PoppedKeepsTop(stack) == stack

\* the cursor stack after pageHistory.pop()
Popped(stack) == IF stack = <<>> THEN stack ELSE SubSeq(stack, 1, Len(stack) - 1)

loadPreviousPage ==
  /\ CanIssue
  /\ IF currentPage <= 1
     THEN /\ lastOp' = Op("loadPreviousPage", FALSE, FALSE, FALSE)
          /\ UNCHANGED <<queryVars, ui, inflight, before>>
     ELSE /\ currentCursor' = Pop(pageHistory)
          /\ pageHistory' = Popped(pageHistory)
          /\ currentPage' = currentPage - 1
          /\ loadCurrentTab(CONFIG, activeTab, currentPage - 1, Pop(pageHistory),
                            isSearchMode, searchQuery, ui,
                            Superseded(inflight), isReady, TRUE)
          /\ lastOp' = Op("loadPreviousPage", TRUE, FALSE, FALSE)
          /\ before' = Before([QueryState EXCEPT
                                  !.currentCursor = Pop(pageHistory),
                                  !.pageHistory = Popped(pageHistory),
                                  !.currentPage = currentPage - 1])
          /\ UNCHANGED <<activeTab, isSearchMode, searchQuery>>
  /\ UNCHANGED <<utilVars, CONFIG, lastResults, resultsPage, sdkVars>>

\* ------------------------------------------------------- query completions
\* the history variable before once request r has completed: the query of the
\* latest navigation action is no longer awaited
Settled(r) == IF r.nav /\ ~r.stale THEN QueryState ELSE before

\* sdk.documents.query of request i resolves with documents: the continuation
\* of loadCurrentTab after its await
queryResolved(i, documents) ==
  /\ i \in 1..Len(inflight)
  /\ inflight' = RemoveAt(inflight, i)
  /\ lastResults' = documents
  /\ resultsPage' = inflight[i].page
  /\ IF RenderThrows(documents)
     THEN /\ ui' = showError(renderResults(ui, documents))
          /\ lastOp' = Completed("renderFailed", inflight[i])
     ELSE /\ ui' = updatePaginationUI(renderResults(ui, documents),
                                      documents, currentPage)
          /\ lastOp' = Completed("queryResolved", inflight[i])
  /\ before' = Settled(inflight[i])
  /\ UNCHANGED <<utilVars, CONFIG, queryVars, sdkVars>>

\* sdk.documents.query of request i rejects: queryDocuments rethrows and the
\* catch block of loadCurrentTab shows the error
queryRejected(i) ==
  /\ i \in 1..Len(inflight)
  /\ inflight' = RemoveAt(inflight, i)
  /\ ui' = showError(ui)
  /\ lastOp' = Completed("queryRejected", inflight[i])
  /\ before' = Settled(inflight[i])
  /\ UNCHANGED <<utilVars, CONFIG, queryVars, lastResults, resultsPage, sdkVars>>

\* ------------------------------------------------------------- SdkClient
\* a settings change whose connect call has no 'Connection already in
\* progress' guard
handleSaveSettingsUnguarded(contractId, net) ==
  LET cfg == [CONFIG EXCEPT !.contractId = contractId, !.network = net]
  IN  /\ CONFIG' = cfg
      /\ IF connected /\ network = net
         THEN /\ CanIssue
              /\ loadCurrentTab(cfg, activeTab, currentPage, currentCursor,
                                isSearchMode, searchQuery, ui, inflight,
                                isReady, FALSE)
              /\ lastOp' = Op("reload", FALSE, FALSE, FALSE)
              /\ UNCHANGED <<sdkVars, before>>
         ELSE /\ connecting' = TRUE
              /\ connectTarget' = net
              /\ connected' = IF sdk # NoSdk /\ network # net THEN FALSE
                              ELSE connected
              /\ sdk' = net
              /\ lastOp' = Op("connect", FALSE, FALSE, FALSE)
              /\ UNCHANGED <<network, ui, inflight, before>>
      /\ UNCHANGED <<utilVars, queryVars, lastResults, resultsPage>>

\* a settings change that starts over from the first page
handleSaveSettingsFromFirstPage(contractId, net) ==
  LET cfg == [CONFIG EXCEPT !.contractId = contractId, !.network = net]
  IN  /\ CONFIG' = cfg
      /\ currentPage' = 1
      /\ pageHistory' = <<>>
      /\ currentCursor' = Null
      /\ IF connecting
         THEN /\ lastOp' = Op("connectRefused", FALSE, FALSE, FALSE)
              /\ UNCHANGED <<sdkVars, ui, inflight, before>>
         ELSE IF connected /\ network = net
         THEN /\ CanIssue
              /\ loadCurrentTab(cfg, activeTab, 1, Null, isSearchMode,
                                searchQuery, ui, inflight, isReady, FALSE)
              /\ lastOp' = Op("reload", FALSE, FALSE, FALSE)
              /\ UNCHANGED <<sdkVars, before>>
         ELSE /\ connecting' = TRUE
              /\ connectTarget' = net
              /\ connected' = IF sdk # NoSdk /\ network # net THEN FALSE
                              ELSE connected
              /\ sdk' = net
              /\ lastOp' = Op("connect", FALSE, FALSE, FALSE)
              /\ UNCHANGED <<network, ui, inflight, before>>
      /\ UNCHANGED <<utilVars, activeTab, isSearchMode, searchQuery,
                     lastResults, resultsPage>>

\* handleSaveSettings with a valid form: saveSettings, then the
\* 'settings-changed' listener runs connectAndLoad and connectToNetwork up to
\* the first suspension of sdkClient.connect(CONFIG.network)
handleSaveSettings(contractId, net) ==
  LET cfg == [CONFIG EXCEPT !.contractId = contractId, !.network = net]
  IN  /\ CONFIG' = cfg
      /\ IF connecting
         THEN \* connect throws 'Connection already in progress'
              /\ lastOp' = Op("connectRefused", FALSE, FALSE, FALSE)
              /\ UNCHANGED <<sdkVars, ui, inflight, before>>
         ELSE IF connected /\ network = net
         THEN \* connect returns at once and connectToNetwork reloads
              /\ CanIssue
              /\ loadCurrentTab(cfg, activeTab, currentPage, currentCursor,
                                isSearchMode, searchQuery, ui, inflight,
                                isReady, FALSE)
              /\ lastOp' = Op("reload", FALSE, FALSE, FALSE)
              /\ UNCHANGED <<sdkVars, before>>
         ELSE /\ connecting' = TRUE
              /\ connectTarget' = net
              /\ connected' = IF sdk # NoSdk /\ network # net THEN FALSE
                              ELSE connected
              /\ sdk' = net
              /\ lastOp' = Op("connect", FALSE, FALSE, FALSE)
              /\ UNCHANGED <<network, ui, inflight, before>>
      /\ UNCHANGED <<utilVars, queryVars, lastResults, resultsPage>>

\* sdk.connect() resolves: connect finishes and connectToNetwork loads the tab
connectResolved ==
  /\ connecting
  /\ CanIssue
  /\ network' = connectTarget
  /\ connected' = TRUE
  /\ connecting' = FALSE
  /\ connectTarget' = NoSetting
  /\ loadCurrentTab(CONFIG, activeTab, currentPage, currentCursor,
                    isSearchMode, searchQuery, ui, inflight,
                    sdk # NoSdk, FALSE)
  /\ lastOp' = Op("connectResolved", FALSE, FALSE, FALSE)
  /\ UNCHANGED <<utilVars, CONFIG, queryVars, lastResults, resultsPage, sdk, before>>

\* sdk.connect() rejects: the catch and finally blocks of connect
connectRejected ==
  /\ connecting
  /\ connected' = FALSE
  /\ connecting' = FALSE
  /\ connectTarget' = NoSetting
  /\ lastOp' = Op("connectRejected", FALSE, FALSE, FALSE)
  /\ UNCHANGED <<utilVars, CONFIG, queryVars, lastResults, resultsPage, ui, sdk, network,
                 inflight, before>>

\* ----------------------------------------------------------- inputs and Next
\* the inputs of the browse session: the tabs clicked, the texts typed into
\* the search box and the settings saved
TabChoices == {"movie", "iso"}

SearchInputs == {<<"t", "t", "7">>, <<" ">>}

ContractChoices == {"c1"}

NetworkChoices == {"testnet"}

Next ==
  \/ \E docType \in TabChoices : switchTab(docType)
  \/ \E input \in SearchInputs : handleSearch(input)
  \/ clearSearch
  \/ loadNextPage
  \/ loadPreviousPage
  \/ \E i \in 1..MaxInFlight, documents \in Responses : queryResolved(i, documents)
  \/ \E i \in 1..MaxInFlight : queryRejected(i)
  \/ \E contractId \in ContractChoices, net \in NetworkChoices :
       handleSaveSettings(contractId, net)
  \/ connectResolved
  \/ connectRejected

Spec == Init /\ [][Next]_vars

\* ------------------------------------------- a session of one click at a time
\* the five collections and a wider set of search-box texts, for a user who
\* waits for the awaited response before the next click
AllTabs == DOMAIN TAB_CONFIG

SearchTerms ==
  {<<"t", "t", "0", "1", "3", "3", "0", "9", "3">>,
   <<" ", "O", "L", "8", "W", " ">>,
   <<"4", "2">>,
   <<"u", "b">>,
   <<" ">>}

SequentialNext ==
  \/ /\ inflight = <<>>
     /\ \/ \E docType \in AllTabs : switchTab(docType)
        \/ \E input \in SearchTerms : handleSearch(input)
        \/ clearSearch
        \/ loadNextPage
        \/ loadPreviousPage
        \/ \E contractId \in ContractChoices, net \in NetworkChoices :
             handleSaveSettings(contractId, net)
  \/ \E i \in 1..MaxInFlight, documents \in Responses : queryResolved(i, documents)
  \/ \E i \in 1..MaxInFlight : queryRejected(i)
  \/ connectResolved
  \/ connectRejected

SpecSequential == Init /\ [][SequentialNext]_vars

\* ------------------------------------------- a session without the search box
\* tab clicks and paging against a store that answers with any of AllResponses,
\* in any interleaving of the awaited responses
RenderNext ==
  \/ \E docType \in TabChoices : switchTab(docType)
  \/ loadNextPage
  \/ loadPreviousPage
  \/ \E i \in 1..MaxInFlight, documents \in AllResponses :
       queryResolved(i, documents)
  \/ \E i \in 1..MaxInFlight : queryRejected(i)
  \/ \E contractId \in ContractChoices, net \in NetworkChoices :
       handleSaveSettings(contractId, net)
  \/ connectResolved
  \/ connectRejected

SpecRender == Init /\ [][RenderNext]_vars

\* ------------------------------------------------ a session of saved settings
\* paging and searching, one click at a time, while the settings modal saves
\* another contract ID or the other network
SettingsContracts == {"c1", "c2"}

SettingsNetworks == {"testnet", "mainnet"}

SettingsNext ==
  \/ /\ inflight = <<>>
     /\ \/ \E input \in SearchInputs : handleSearch(input)
        \/ loadNextPage
        \/ loadPreviousPage
        \/ \E contractId \in SettingsContracts, net \in SettingsNetworks :
             handleSaveSettings(contractId, net)
  \/ \E i \in 1..MaxInFlight, documents \in Responses : queryResolved(i, documents)
  \/ \E i \in 1..MaxInFlight : queryRejected(i)
  \/ connectResolved
  \/ connectRejected

SpecSettings == Init /\ [][SettingsNext]_vars

\* ----------------------------------------------------- the infohash codec
MaxSeed == 3

\* the byte arrays converted: of the infohash size, one byte short or long of
\* it, empty, of one byte, of twice the size
HashLengths == {0, 1, HashBytes - 1, HashBytes, HashBytes + 1, 2 * HashBytes}

HashArray(seed, n) == [i \in 1..n |-> (seed * (9 * i + 1)) % 256]

HashArrays ==
  {HashArray(seed, n) : seed \in 0..MaxSeed, n \in HashLengths}
    \cup {[i \in 1..n |-> 255] : n \in HashLengths}

\* s with the character at position p replaced by c
ReplaceAt(s, p, c) == [i \in 1..Len(s) |-> IF i = p THEN c ELSE s[i]]

\* characters a hex string is spoilt with
BadHexChars == {"g", " ", "-", "+", "x", "Z"}

\* the strings converted: the hex digits of the byte arrays in small and in
\* capital letters, the same cut by one character or grown by one, and the
\* same with one character that is not a hex digit
HexTexts ==
  LET plain == {HexOfBytes(b) : b \in HashArrays}
      cased == plain \cup {toUpperCase(h) : h \in plain}
      odd   == {SubSeq(h, 1, Len(h) - 1) : h \in cased \ {<<>>}}
                 \cup {h \o <<"0">> : h \in cased}
      spoilt == {ReplaceAt(h, p, c) : h \in {x \in plain : Len(x) = HexChars},
                                      p \in {1, 2, HexChars}, c \in BadHexChars}
  IN  cased \cup odd \cup spoilt

\* a caller holds a byte array (or none) to convert to hex and back, or a
\* string (or none) to convert to bytes
InfoHashInit ==
  /\ BrowseInit
  /\ created = <<>>
  /\ args = NoArgs
  /\ out = Returned(<<>>)
  /\ \/ step = "bytes" /\ bytes \in HashArrays \cup {NoBytes} /\ text = <<>>
     \/ step = "hex" /\ text \in HexTexts \cup {Undefined} /\ bytes = <<>>

bytesToHexCall ==
  /\ step = "bytes"
  /\ out' = bytesToHex(bytes)
  /\ text' = IF out'.ok THEN out'.value ELSE text
  /\ step' = IF out'.ok THEN "hexed" ELSE "hexFailed"
  /\ UNCHANGED <<bytes, args, created, browseVars>>

hexToBytesCall ==
  /\ step \in {"hexed", "hex"}
  /\ out' = hexToBytes(text)
  /\ step' = IF step = "hexed" THEN "hexRoundTrip" ELSE "unhexed"
  /\ UNCHANGED <<bytes, text, args, created, browseVars>>

InfoHashNext == bytesToHexCall \/ hexToBytesCall

SpecInfoHash == InfoHashInit /\ [][InfoHashNext]_vars

\* ------------------------------------------------------- the base58 codec
\* all sequences over alphabet of length at most n
SeqsUpTo(alphabet, n) == UNION {[1..k -> alphabet] : k \in 0..n}

\* the byte arrays encoded and the strings decoded
ByteChoices == {0, 1, 57, 58, 255}

ByteArrays == SeqsUpTo(ByteChoices, MaxBytes)

Base58Chars == {"1", "2", "z", "0", "O", "I", "l"}

Base58Texts == SeqsUpTo(Base58Chars, MaxChars)

\* a caller holds either a byte array to encode and decode back, or a string
\* to decode
Base58Init ==
  /\ BrowseInit
  /\ created = <<>>
  /\ args = NoArgs
  /\ out = Returned(<<>>)
  /\ \/ step = "bytes" /\ bytes \in ByteArrays /\ text = <<>>
     \/ step = "text" /\ text \in Base58Texts /\ bytes = <<>>

base58EncodeCall ==
  /\ step = "bytes"
  /\ text' = base58Encode(bytes)
  /\ step' = "encoded"
  /\ UNCHANGED <<bytes, args, out, created, browseVars>>

base58DecodeCall ==
  /\ step \in {"encoded", "text"}
  /\ out' = base58Decode(text)
  /\ step' = IF step = "encoded" THEN "roundtrip" ELSE "decoded"
  /\ UNCHANGED <<bytes, text, args, created, browseVars>>

Base58Next == base58EncodeCall \/ base58DecodeCall

SpecBase58 == Base58Init /\ [][Base58Next]_vars

\* ------------------------------------------------------------ magnet links
\* the parts magnet links are put together from: a 40-digit hex hash, the
\* same cut to 39 digits, a 32-character base32 hash
HexHash == [i \in 1..40 |-> IF i % 2 = 1 THEN "A" ELSE "9"]

Base32Hash == [i \in 1..32 |-> IF i % 2 = 1 THEN "z" ELSE "2"]

XtKey == <<"x", "t", "=", "u", "r", "n", ":", "b", "t", "i", "h", ":">>

XtChoices ==
  {<<>>, XtKey \o HexHash, XtKey \o SubSeq(HexHash, 1, 39), XtKey \o Base32Hash}

\* values of a dn or tr parameter: plain, escaped ASCII, a two-octet UTF-8
\* escape, a lone "%", a truncated three-octet escape
ParamChoices ==
  {<<"a", "+", "b">>, <<"u", "%", "3", "A", "%", "2", "f">>, <<"%", "C", "3", "%", "A", "9">>, <<"%">>, <<"%", "E", "0", "%", "A", "4">>}

DnChoices == {<<>>} \cup {<<"&">> \o DnKey \o v : v \in ParamChoices}

RECURSIVE TrackerParams(_)
\* the tr parameters of a link, one for each value of the list
TrackerParams(values) ==
  IF values = <<>> THEN <<>>
  ELSE <<"&">> \o TrKey \o Head(values) \o TrackerParams(Tail(values))

TrChoices == {TrackerParams(vs) : vs \in SeqsUpTo(ParamChoices, MaxTrackers)}

MagnetScheme == <<"m", "a", "g", "n", "e", "t", ":", "?">>

MagnetLinks ==
  {<<>>} \cup {MagnetScheme \o xt \o dn \o tr :
                 xt \in XtChoices, dn \in DnChoices, tr \in TrChoices}

\* a caller holds a string, or a value that is not a string (null, a number)
MagnetInit ==
  /\ BrowseInit
  /\ created = <<>>
  /\ args = NoArgs
  /\ out = Returned(<<>>)
  /\ bytes = <<>>
  /\ \/ step = "magnet" /\ text \in MagnetLinks
     \/ step = "notAString" /\ text = <<>>

parseMagnetLinkCall ==
  /\ step \in {"magnet", "notAString", "built"}
  /\ out' = parseMagnetLink(text, step # "notAString")
  /\ step' = IF step = "magnet" THEN "parsed"
             ELSE IF step = "built" THEN "reparsed"
             ELSE "parsedNotAString"
  /\ UNCHANGED <<bytes, text, args, created, browseVars>>

MagnetNext == parseMagnetLinkCall

SpecMagnet == MagnetInit /\ [][MagnetNext]_vars

\* ---------------------------------------------- building and parsing back
\* the infoHash arguments: byte arrays of the infohash size and around it,
\* strings of 40 hex digits and other strings, a value of another type
HashArguments ==
  LET hex == HexOfBytes(HashArray(1, HashBytes))
  IN  {BytesArg(HashArray(1, n)) : n \in HashLengths}
        \cup {BytesArg([i \in 1..HashBytes |-> 255])}
        \cup {StringArg(t) : t \in {<<>>, <<"x", "y", "z">>, hex, toUpperCase(hex),
                                    SubSeq(hex, 1, HexChars - 1),
                                    ReplaceAt(hex, HexChars, "g")}}
        \cup {OtherArg}

\* the display names: none, empty, and names with a space, a plus, a percent
\* sign, parameter separators, a line feed and characters outside ASCII
DisplayNames ==
  {NoText, <<>>,
   <<"a", " ", "b">>,
   <<"a", "+", "b">>,
   <<"5", "0", "%">>,
   <<"x", "&", "d", "n", "=", "y">>,
   <<"?", "t", "r", "=", "u">>,
   <<"a", "\n", "b">>,
   <<CharOf(233), "t", CharOf(233)>>, <<CharOf(2340), CharOf(128512)>>}

\* tracker URLs, with the characters a query string reserves
TrackerUrls ==
  {<<"u", "d", "p", ":", "/", "/", "t", "1">>,
   <<"h", "t", "t", "p", ":", "/", "/", "a", "?", "b", "=", "c", "&", "d">>,
   <<"w", "s", "s", ":", "/", "/", "t", "+", "2", "/", "%", "4", "1">>,
   <<"u", "d", "p", ":", "/", "/", CharOf(233)>>}

\* the stored tracker lists: URLs joined by line feeds
TrackerLists == {Join(list, "\n") : list \in SeqsUpTo(TrackerUrls, MaxTrackers)}

BuildInit ==
  /\ BrowseInit
  /\ created = <<>>
  /\ bytes = <<>>
  /\ text = <<>>
  /\ out = Returned(<<>>)
  /\ step = "build"
  /\ args \in [infoHash : HashArguments, displayName : DisplayNames,
               trackers : TrackerLists]

buildMagnetUriCall ==
  /\ step = "build"
  /\ out' = buildMagnetUri(args.infoHash, args.displayName, args.trackers)
  /\ text' = IF out'.ok THEN out'.value ELSE text
  /\ step' = IF out'.ok THEN "built" ELSE "buildFailed"
  /\ UNCHANGED <<bytes, args, created, browseVars>>

BuildNext == buildMagnetUriCall \/ parseMagnetLinkCall

SpecBuild == BuildInit /\ [][BuildNext]_vars

\* ------------------------------------------------------- the tracker input
MaxEntries == 3

\* what is typed between two separators: tracker URLs of the four schemes,
\* one of them again with white space around it, a URL of another scheme,
\* and nothing
TrackerEntries ==
  {<<"h", "t", "t", "p", ":", "/", "/", "a">>,
   <<" ", "h", "t", "t", "p", ":", "/", "/", "a", "\t">>,
   <<"f", "t", "p", ":", "/", "/", "b">>,
   <<"u", "d", "p", ":", "/", "/", "t">>,
   <<"h", "t", "t", "p", "s", ":", "/", "/", "s">>,
   <<"w", "s", "s", ":", "/", "/", "w">>,
   <<>>}

RECURSIVE TrackerInputsOf(_)
\* the texts of k entries, separated by a line feed or a comma
TrackerInputsOf(k) ==
  IF k = 1 THEN TrackerEntries
  ELSE {p \o <<sep>> \o e : p \in TrackerInputsOf(k - 1),
                            sep \in TrackerSeparators, e \in TrackerEntries}

TrackerInputs == UNION {TrackerInputsOf(k) : k \in 1..MaxEntries}

\* a caller holds the text of the trackers field, or a value that is not a
\* string
TrackersInit ==
  /\ BrowseInit
  /\ created = <<>>
  /\ bytes = <<>>
  /\ args = NoArgs
  /\ out = Returned(<<>>)
  /\ step = "trackers"
  /\ text \in TrackerInputs \cup {Undefined}

parseTrackersInputCall ==
  /\ step = "trackers"
  /\ out' = parseTrackersInput(text)
  /\ step' = "trackersParsed"
  /\ UNCHANGED <<bytes, text, args, created, browseVars>>

TrackersNext == parseTrackersInputCall

SpecTrackers == TrackersInit /\ [][TrackersNext]_vars

\* ------------------------------------------------------- the typed IDs
\* the numbers formatted: the integers of one to ten digits written with the
\* digits 0 and 9, which hold the ends of the range and every width
IdNumbers ==
  {ds \in UNION {[1..k -> {"0", "9"}] : k \in 1..MaxIdDigits} : Canonical(ds) = ds}

\* the canonical display strings parsed and formatted back
ImdbDisplays ==
  {<<"t", "t">> \o ds :
     ds \in {d \in UNION {[1..k -> {"0", "9"}] : k \in ImdbPad..MaxIdDigits} :
               Len(d) = ImdbPad \/ d[1] # "0"}}

WorkDisplays == {<<"O", "L">> \o n \o <<"W">> : n \in IdNumbers}

\* the strings parsed: display forms in either letter case, at and beyond ten
\* digits, bare decimals in and out of range, digits followed by other
\* characters, a negative number, text without a digit, the empty string
IdStrings ==
  {<<"t", "t", "0", "1", "3", "3", "0", "9", "3">>,
   <<"T", "T", "1">>,
   <<"t", "t", "0", "0", "0", "0", "0", "0", "0">>,
   <<"t", "t", "9", "9", "9", "9", "9", "9", "9", "9", "9", "9">>,
   <<"t", "t", "9", "9", "9", "9", "9", "9", "9", "9", "9", "9", "9">>,
   <<"t", "t">>,
   <<"t", "t", "x">>,
   <<"t", "t", "1", "2", "x">>,
   <<"O", "L", "8", "4", "8", "3", "2", "6", "0", "W">>,
   <<"o", "l", "8", "w">>,
   <<"O", "L", "0", "W">>,
   <<"O", "L", "9", "9", "9", "9", "9", "9", "9", "9", "9", "9", "W">>,
   <<"O", "L", "9", "9", "9", "9", "9", "9", "9", "9", "9", "9", "9", "W">>,
   <<"O", "L", "8">>,
   <<"O", "L", "W">>,
   <<"8", "W">>,
   <<"4", "2">>,
   <<"0">>,
   <<"0", "0", "7">>,
   <<"9", "9", "9", "9", "9", "9", "9", "9", "9", "9">>,
   <<"9", "9", "9", "9", "9", "9", "9", "9", "9", "9", "9">>,
   <<"1", "2", "a", "b", "c">>,
   <<"1", "2", ".", "5">>,
   <<"1", "e", "3">>,
   <<"-", "5">>,
   <<"a", "b", "c">>,
   <<"x", "1">>,
   <<>>}

\* a caller holds a number to format and parse back, a display string to
\* parse and format back, or any string to parse
TypedIdInit ==
  /\ BrowseInit
  /\ created = <<>>
  /\ bytes = <<>>
  /\ out = Returned(<<>>)
  /\ \/ step = "number" /\ text \in IdNumbers
     \/ step = "imdbDisplay" /\ text \in ImdbDisplays
     \/ step = "workDisplay" /\ text \in WorkDisplays
     \/ step = "string" /\ text \in IdStrings
  /\ args = [given |-> text]

parseImdbIdCall ==
  /\ step \in {"string", "imdbFormatted", "imdbDisplay"}
  /\ out' = Returned(parseImdbId(text))
  /\ step' = IF step = "string" THEN "imdbParsed"
             ELSE IF step = "imdbFormatted" THEN "imdbBack"
             ELSE "imdbDisplayParsed"
  /\ UNCHANGED <<bytes, text, args, created, browseVars>>

parseWorkIdCall ==
  /\ step \in {"string", "workFormatted", "workDisplay"}
  /\ out' = Returned(parseWorkId(text))
  /\ step' = IF step = "string" THEN "workParsed"
             ELSE IF step = "workFormatted" THEN "workBack"
             ELSE "workDisplayParsed"
  /\ UNCHANGED <<bytes, text, args, created, browseVars>>

formatImdbIdCall ==
  /\ step \in {"number", "imdbDisplayParsed"}
  /\ text' = formatImdbId(IF step = "number" THEN text ELSE out.value)
  /\ step' = IF step = "number" THEN "imdbFormatted" ELSE "imdbDisplayBack"
  /\ UNCHANGED <<bytes, args, out, created, browseVars>>

formatWorkIdCall ==
  /\ step \in {"number", "workDisplayParsed"}
  /\ text' = formatWorkId(IF step = "number" THEN text ELSE out.value)
  /\ step' = IF step = "number" THEN "workFormatted" ELSE "workDisplayBack"
  /\ UNCHANGED <<bytes, args, out, created, browseVars>>

TypedIdNext ==
  parseImdbIdCall \/ parseWorkIdCall \/ formatImdbIdCall \/ formatWorkIdCall

SpecTypedId == TypedIdInit /\ [][TypedIdNext]_vars

\* ------------------------------------------------- the admin submit flow
\* what is typed into the infoHash field: nothing, 40 hex digits in small and
\* in capital letters, 39 and 41 hex digits, 40 characters one of which is
\* not a hex digit
EnteredHashes ==
  LET hex == HexOfBytes(HashArray(MaxSeed, HashBytes))
  IN  {Undefined, hex, toUpperCase(hex), SubSeq(hex, 1, HexChars - 1),
       hex \o <<"0">>, ReplaceAt(hex, HexChars, "g"), ReplaceAt(hex, 1, "-")}

\* what is typed into the identifying field of the collection
EnteredIds ==
  {Undefined,
   <<"t", "t", "0", "1", "3", "3", "0", "9", "3">>,
   <<"O", "L", "8", "W">>,
   <<"4", "2">>,
   <<"1", "2", "a", "b", "c">>,
   <<"a", "b", "c">>,
   <<"-", "5">>,
   <<"9", "9", "9", "9", "9", "9", "9", "9", "9", "9", "9">>}

EnteredTrackers == {Undefined, <<"u", "d", "p", ":", "/", "/", "t", ",", "f", "t", "p", ":", "/", "/", "b">>}

\* the form of the collection docType: collectFormData leaves out the fields
\* that are empty, and the form has one identifying field
FormData(docType, infoHash, torrentName, trackers, id, sizeBytes) ==
  [infoHash     |-> infoHash,
   torrentName  |-> torrentName,
   trackers     |-> trackers,
   imdbId       |-> IF docType = "movie" THEN id ELSE Undefined,
   seriesImdbId |-> IF docType = "tv" THEN id ELSE Undefined,
   workId       |-> IF docType = "book" THEN id ELSE Undefined,
   title        |-> IF docType \in {"iso", "other"} THEN id ELSE Undefined,
   sizeBytes    |-> sizeBytes]

\* the data object of a form that was not prepared
NoData ==
  [infoHash |-> NoBytes, torrentName |-> Undefined, trackers |-> Undefined,
   imdbId |-> NullId, seriesImdbId |-> NullId, workId |-> NullId,
   title |-> Undefined, sizeBytes |-> NoNumber]

\* the admin page with its form filled in and the client constructed or
\* connected
SubmitInit ==
  /\ PageInit
  /\ connecting = FALSE
  /\ connectTarget = NoSetting
  /\ network = "testnet"
  /\ \/ sdk = NoSdk /\ connected = FALSE
     \/ sdk = "testnet" /\ connected = TRUE
  /\ bytes = <<>>
  /\ text = <<>>
  /\ created = <<>>
  /\ out = Returned(<<>>)
  /\ step = "form"
  /\ \E docType \in AllTabs, contractId \in {"", "c1"},
        infoHash \in EnteredHashes, torrentName \in {Undefined, <<"n">>},
        trackers \in EnteredTrackers, id \in EnteredIds,
        sizeBytes \in {Undefined, <<"7">>} :
       args = [contractId |-> contractId,
               docType    |-> docType,
               formData   |-> FormData(docType, infoHash, torrentName, trackers,
                                       id, sizeBytes),
               data       |-> NoData]

\* executeSubmitDocument up to the first await of submitDocument, the contract
\* fetch of verifyContract
executeSubmitDocument ==
  /\ step = "form"
  /\ LET prepared   == prepareDocumentData(args.docType, args.formData)
         validation == validateDocumentData(args.docType, prepared.value)
     IN  IF args.contractId = ""
         THEN /\ out' = Thrown("Contract ID is required. Register a contract first.")
              /\ step' = "failed"
              /\ args' = args
         ELSE IF ~prepared.ok
         THEN /\ out' = prepared
              /\ step' = "failed"
              /\ args' = args
         ELSE IF ~validation.valid
         THEN /\ out' = Thrown("Validation failed")
              /\ step' = "failed"
              /\ args' = [args EXCEPT !.data = prepared.value]
         ELSE IF ~isReady
         THEN /\ out' = Thrown("SDK not connected")
              /\ step' = "failed"
              /\ args' = [args EXCEPT !.data = prepared.value]
         ELSE /\ out' = out
              /\ step' = "verifying"
              /\ args' = [args EXCEPT !.data = prepared.value]
  /\ UNCHANGED <<bytes, text, created, browseVars>>

\* JS null where a contract is expected
NoContract == <<"null">>

\* how sdk.contracts.fetch settles: it resolves with a contract, with null or
\* with undefined, or it rejects
FetchOutcomes ==
  {[settled |-> "resolved", contract |-> c] :
     c \in {<<"contract">>, NoContract, Undefined}}
    \cup {[settled |-> "rejected", contract |-> Undefined]}

\* what verifyContract returns: the contract fetched, null when the fetch
\* failed
verifyContract(fetch) ==
  IF fetch.settled = "rejected" THEN NoContract ELSE fetch.contract

\* the test !contract of submitDocument, negated
Found(contract) == contract \notin {NoContract, Undefined}

\* a submitDocument that creates the document whatever verifyContract returned
contractFetchedUnverified(found) ==
  /\ step = "verifying"
  /\ created' = Append(created, [contractId |-> args.contractId,
                                 type |-> args.docType,
                                 data |-> args.data])
  /\ step' = "creating"
  /\ out' = out
  /\ UNCHANGED <<bytes, text, args, browseVars>>

\* contracts.fetch settles: with a contract, submitDocument calls
\* documents.create; with nothing or a failure, which verifyContract turns
\* into null, submitDocument throws
contractFetched(found) ==
  /\ step = "verifying"
  /\ IF found
     THEN /\ created' = Append(created, [contractId |-> args.contractId,
                                         type |-> args.docType,
                                         data |-> args.data])
          /\ step' = "creating"
          /\ out' = out
     ELSE /\ out' = Thrown("Contract not found on network")
          /\ step' = "failed"
          /\ created' = created
  /\ UNCHANGED <<bytes, text, args, browseVars>>

\* documents.create settles
documentCreated(accepted) ==
  /\ step = "creating"
  /\ out' = IF accepted THEN Returned(<<"documentId">>)
            ELSE Thrown("Document submission failed")
  /\ step' = IF accepted THEN "submitted" ELSE "failed"
  /\ UNCHANGED <<bytes, text, args, created, browseVars>>

SubmitNext ==
  \/ executeSubmitDocument
  \/ \E fetch \in FetchOutcomes : contractFetched(Found(verifyContract(fetch)))
  \/ \E accepted \in BOOLEAN : documentCreated(accepted)

SpecSubmit == SubmitInit /\ [][SubmitNext]_vars

\* ------------------------------------------------- the execute button
\* the admin page: the execute button and the errors written to the output
\* area
AdminUi == [executeBtnDisabled |-> FALSE, output |-> <<>>]

\* what the identity ID and private key inputs hold
IdentityInputs == {<<>>, <<" ">>, <<"2", "z">>}

PrivateKeyInputs == {<<>>, <<"k">>}

ExecuteHashes ==
  LET hex == HexOfBytes(HashArray(MaxSeed, HashBytes))
  IN  {Undefined, hex, SubSeq(hex, 1, HexChars - 1), ReplaceAt(hex, HexChars, "g")}

ExecuteIds ==
  {Undefined, <<"t", "t", "0", "1", "3", "3", "0", "9", "3">>, <<"a", "b", "c">>}

\* the admin page with the action 'submit' selected, its inputs filled in and
\* the client constructed or connected to testnet
ExecuteInit ==
  /\ CONFIG = CONFIG_DEFAULT
  /\ activeTab = CONFIG_DEFAULT.defaultTab
  /\ currentPage = 1
  /\ pageHistory = <<>>
  /\ currentCursor = Null
  /\ lastResults = <<>>
  /\ isSearchMode = FALSE
  /\ searchQuery = <<>>
  /\ ui = AdminUi
  /\ inflight = <<>>
  /\ resultsPage = 0
  /\ before = QueryState
  /\ lastOp = Op("init", FALSE, FALSE, FALSE)
  /\ connecting = FALSE
  /\ connectTarget = NoSetting
  /\ network = "testnet"
  /\ \/ sdk = NoSdk /\ connected = FALSE
     \/ sdk = "testnet" /\ connected = TRUE
  /\ bytes = <<>>
  /\ text = <<>>
  /\ created = <<>>
  /\ out = Returned(<<>>)
  /\ step = "idle"
  /\ \E docType \in AllTabs, contractId \in {"", "c1"},
        infoHash \in ExecuteHashes, torrentName \in {Undefined, <<"n">>},
        id \in ExecuteIds, identityId \in IdentityInputs,
        privateKey \in PrivateKeyInputs, net \in SettingsNetworks :
       args = [identityId |-> identityId,
               privateKey |-> privateKey,
               network    |-> net,
               contractId |-> contractId,
               docType    |-> docType,
               formData   |-> FormData(docType, infoHash, torrentName,
                                       Undefined, id, Undefined),
               data       |-> NoData]

\* executeSubmitDocument and submitDocument up to the await of the contract
\* fetch: the error thrown, or the prepared data handed to submitDocument
SubmitOutcome(a, ready) ==
  LET prepared == prepareDocumentData(a.docType, a.formData)
  IN  IF a.contractId = ""
      THEN Thrown("Contract ID is required. Register a contract first.")
      ELSE IF ~prepared.ok THEN prepared
      ELSE IF ~validateDocumentData(a.docType, prepared.value).valid
      THEN Thrown("Validation failed")
      ELSE IF ~ready THEN Thrown("SDK not connected")
      ELSE prepared

\* a catch block of onExecute without its finally block
ExecuteFailedKeepsDisabled(message) ==
  /\ ui' = [ui EXCEPT !.output = Append(@, message)]
  /\ out' = Thrown(message)
  /\ step' = "done"

\* the catch and finally blocks of onExecute: the error is appended to the
\* output area and setExecuting(false) enables the button
ExecuteFailed(message) ==
  /\ ui' = [ui EXCEPT !.output = Append(@, message),
                     !.executeBtnDisabled = FALSE]
  /\ out' = Thrown(message)
  /\ step' = "done"

\* onExecute after connectToNetwork has returned, on a client with readiness
\* ready: executeSubmitDocument up to the contract fetch, or to its failure
ExecuteSubmit(ready) ==
  LET outcome == SubmitOutcome(args, ready)
  IN  IF outcome.ok
      THEN /\ args' = [args EXCEPT !.data = outcome.value]
           /\ ui' = [ui EXCEPT !.executeBtnDisabled = TRUE]
           /\ out' = out
           /\ step' = "verifying"
      ELSE /\ args' = args
           /\ ExecuteFailed(outcome.error)

\* a click on the execute button, up to the first await that suspends
onExecute ==
  LET identityId == Trim(args.identityId)
      privateKey == Trim(args.privateKey)
  IN  /\ step = "idle"
      /\ IF identityId = <<>> \/ privateKey = <<>>
         THEN \* returns before setExecuting(true)
              /\ ui' = [ui EXCEPT !.output =
                          Append(@, IF identityId = <<>>
                                    THEN "Error: Identity ID is required"
                                    ELSE "Error: Private key is required")]
              /\ out' = out
              /\ step' = "done"
              /\ UNCHANGED <<args, sdkVars>>
         ELSE IF connected /\ network = args.network
         THEN \* connectToNetwork returns at once
              /\ ExecuteSubmit(isReady)
              /\ UNCHANGED sdkVars
         ELSE \* sdkClient.connect awaits sdk.connect()
              /\ connecting' = TRUE
              /\ connectTarget' = args.network
              /\ connected' = IF sdk # NoSdk /\ network # args.network
                              THEN FALSE ELSE connected
              /\ sdk' = args.network
              /\ ui' = [ui EXCEPT !.executeBtnDisabled = TRUE]
              /\ out' = out
              /\ step' = "connecting"
              /\ UNCHANGED <<args, network>>
      /\ UNCHANGED <<bytes, text, created, CONFIG, queryVars, lastResults,
                     inflight, resultsPage, before, lastOp>>

\* sdk.connect() settles: connect finishes, and onExecute goes on with the
\* submission or reports the failure
executeConnected(resolved) ==
  /\ step = "connecting"
  /\ connecting' = FALSE
  /\ connectTarget' = NoSetting
  /\ connected' = resolved
  /\ network' = IF resolved THEN connectTarget ELSE network
  /\ IF resolved THEN ExecuteSubmit(TRUE)
     ELSE args' = args /\ ExecuteFailed("Connection failed")
  /\ UNCHANGED <<bytes, text, created, sdk, CONFIG, queryVars, lastResults,
                 inflight, resultsPage, before, lastOp>>

\* the contract fetch of submitDocument settles
executeContractFetched(fetch) ==
  /\ step = "verifying"
  /\ IF Found(verifyContract(fetch))
     THEN /\ created' = Append(created, [contractId |-> args.contractId,
                                         type |-> args.docType,
                                         data |-> args.data])
          /\ step' = "creating"
          /\ UNCHANGED <<out, ui>>
     ELSE /\ created' = created
          /\ ExecuteFailed("Contract not found on network")
  /\ UNCHANGED <<bytes, text, args, sdkVars, CONFIG, queryVars, lastResults,
                 inflight, resultsPage, before, lastOp>>

\* documents.create settles
executeDocumentCreated(accepted) ==
  /\ step = "creating"
  /\ IF accepted
     THEN /\ ui' = [ui EXCEPT !.executeBtnDisabled = FALSE]
          /\ out' = Returned(<<"documentId">>)
          /\ step' = "done"
     ELSE ExecuteFailed("Document submission failed")
  /\ UNCHANGED <<bytes, text, args, created, sdkVars, CONFIG, queryVars,
                 lastResults, inflight, resultsPage, before, lastOp>>

ExecuteNext ==
  \/ onExecute
  \/ \E resolved \in BOOLEAN : executeConnected(resolved)
  \/ \E fetch \in FetchOutcomes : executeContractFetched(fetch)
  \/ \E accepted \in BOOLEAN : executeDocumentCreated(accepted)

SpecExecute == ExecuteInit /\ [][ExecuteNext]_vars

\* ---------------------------------------------------- registering a contract
\* contract IDs: base58 strings of 44 and of 43 characters
ContractIdA == [i \in 1..44 |-> "A"]
ContractIdB == [i \in 1..43 |-> "B"]

StoreIds == {Undefined, ContractIdA, ContractIdB}

\* what contracts.create resolves with: nothing, a string that is a contract
\* ID, a short string, or an object with or without ID fields
CreateResults ==
  {NoResult}
    \cup {[NoResult EXCEPT !.kind = "string", !.text = t] :
            t \in {ContractIdA, ContractIdB, <<"o", "k">>,
                   [i \in 1..MinIdLength |-> "B"]}}
    \cup {[NoResult EXCEPT !.kind = "object", !.dataContractId = a,
                           !.contractId = b, !.id = c] :
            a \in StoreIds, b \in StoreIds, c \in StoreIds}
    \cup {[kind |-> "object", text |-> <<>>, dataContractId |-> a,
           contractId |-> b, id |-> c,
           dataContract |-> [given |-> TRUE, id |-> d, dollarId |-> e]] :
            a \in StoreIds, b \in StoreIds, c \in StoreIds,
            d \in StoreIds, e \in StoreIds}

\* the identity ID typed in: none, a base58 string, a string that is not
\* base58
IdentityIds == {<<>>, <<"2", "z">>, <<"0", "O">>}

\* the admin page with the client constructed or connected
RegisterInit ==
  /\ PageInit
  /\ connecting = FALSE
  /\ connectTarget = NoSetting
  /\ network = "testnet"
  /\ \/ sdk = NoSdk /\ connected = FALSE
     \/ sdk = "testnet" /\ connected = TRUE
  /\ bytes = <<>>
  /\ text = <<>>
  /\ created = <<>>
  /\ out = Returned(<<>>)
  /\ step = "register"
  /\ args \in [identityId : IdentityIds, generated : {Undefined},
               result : {NoResult}]

\* registerContract up to its await of contracts.create; generated is the ID
\* that generateContractId derives from the identity and fresh entropy
registerContract(generated) ==
  /\ step = "register"
  /\ IF ~isReady
     THEN /\ out' = Thrown("SDK not connected")
          /\ step' = "failed"
          /\ args' = args
     ELSE IF args.identityId = <<>>
     THEN /\ out' = Thrown("Identity ID is required")
          /\ step' = "failed"
          /\ args' = args
     ELSE IF ~base58Decode(args.identityId).ok
     THEN /\ out' = base58Decode(args.identityId)
          /\ step' = "failed"
          /\ args' = args
     ELSE /\ out' = out
          /\ step' = "registering"
          /\ args' = [args EXCEPT !.generated = generated]
  /\ UNCHANGED <<bytes, text, created, browseVars>>

\* contracts.create resolves with result
contractCreated(result) ==
  /\ step = "registering"
  /\ args' = [args EXCEPT !.result = result]
  /\ out' = Returned(FinalContractId(args.generated, result))
  /\ step' = "registered"
  /\ UNCHANGED <<bytes, text, created, browseVars>>

\* contracts.create rejects: the catch block re-throws
contractRejected ==
  /\ step = "registering"
  /\ out' = Thrown("Contract registration failed")
  /\ step' = "failed"
  /\ UNCHANGED <<bytes, text, args, created, browseVars>>

RegisterNext ==
  \/ \E generated \in {ContractIdA, ContractIdB} : registerContract(generated)
  \/ \E result \in CreateResults : contractCreated(result)
  \/ contractRejected

SpecRegister == RegisterInit /\ [][RegisterNext]_vars

\* ------------------------------------------- the operations of the client
\* a form that executeSubmitDocument accepts
ClientForm ==
  FormData("movie", HexOfBytes(HashArray(MaxSeed, HashBytes)), <<"n">>,
           Undefined, <<"t", "t", "0", "1", "3", "3", "0", "9", "3">>, Undefined)

\* the page as loaded, with one operation of the client about to be called:
\* a submission, a registration, or a direct call
ClientInit ==
  /\ BrowseInit
  /\ bytes = <<>>
  /\ text = <<>>
  /\ created = <<>>
  /\ out = Returned(<<>>)
  /\ \/ /\ step = "form"
        /\ args = [contractId |-> "c1", docType |-> "movie",
                   formData |-> ClientForm, data |-> NoData]
     \/ /\ step = "register"
        /\ args \in [identityId : {<<>>, <<"2", "z">>}, generated : {Undefined},
                     result : {NoResult}]
     \/ /\ step = "client"
        /\ args = NoArgs

\* the steps in which no operation has been called yet
ClientRest == {"form", "register", "client"}

\* a queryDocuments that does not look at isReady
queryDocumentsCallUnguarded ==
  /\ step = "client"
  /\ args' = [call |-> "queryDocuments"]
  /\ out' = out
  /\ step' = "querying"
  /\ UNCHANGED <<bytes, text, created, browseVars>>

\* SdkClient.queryDocuments up to its await of sdk.documents.query
queryDocumentsCall ==
  /\ step = "client"
  /\ args' = [call |-> "queryDocuments"]
  /\ IF ~isReady
     THEN /\ out' = Thrown("SDK not connected")
          /\ step' = "failed"
     ELSE /\ out' = out
          /\ step' = "querying"
  /\ UNCHANGED <<bytes, text, created, browseVars>>

\* SdkClient.verifyContract up to its await of sdk.contracts.fetch
verifyContractCall ==
  /\ step = "client"
  /\ args' = [call |-> "verifyContract"]
  /\ IF ~isReady
     THEN /\ out' = Thrown("SDK not connected")
          /\ step' = "failed"
     ELSE /\ out' = out
          /\ step' = "fetching"
  /\ UNCHANGED <<bytes, text, created, browseVars>>

\* SdkClient.getContract up to its await of sdk.contracts.get
getContractCall ==
  /\ step = "client"
  /\ args' = [call |-> "getContract"]
  /\ IF ~isReady
     THEN /\ out' = Thrown("SDK not connected")
          /\ step' = "failed"
     ELSE /\ out' = out
          /\ step' = "getting"
  /\ UNCHANGED <<bytes, text, created, browseVars>>

\* the store call of a direct call settles: queryDocuments re-throws a
\* rejection, verifyContract turns it into null, getContract lets it pass
storeSettled(resolved) ==
  /\ step \in {"querying", "fetching", "getting"}
  /\ IF resolved
     THEN /\ out' = Returned(<<"result">>)
          /\ step' = "settled"
     ELSE IF step = "fetching"
     THEN /\ out' = Returned(NoContract)
          /\ step' = "settled"
     ELSE /\ out' = Thrown(IF step = "querying" THEN "Query failed"
                          ELSE "rejected")
          /\ step' = "failed"
  /\ UNCHANGED <<bytes, text, args, created, browseVars>>

\* the page connects, reconnects and pages, one click at a time, until an
\* operation of the client is called; the operation then runs to its end
ClientNext ==
  \/ /\ step \in ClientRest
     /\ \/ /\ inflight = <<>>
           /\ \/ loadNextPage
              \/ \E contractId \in ContractChoices, net \in SettingsNetworks :
                   handleSaveSettings(contractId, net)
        \/ \E i \in 1..MaxInFlight, documents \in Responses :
             queryResolved(i, documents)
        \/ \E i \in 1..MaxInFlight : queryRejected(i)
        \/ connectResolved
        \/ connectRejected
  \/ executeSubmitDocument
  \/ \E fetch \in FetchOutcomes : contractFetched(Found(verifyContract(fetch)))
  \/ \E accepted \in BOOLEAN : documentCreated(accepted)
  \/ \E generated \in {ContractIdA} : registerContract(generated)
  \/ \E result \in {NoResult} : contractCreated(result)
  \/ contractRejected
  \/ queryDocumentsCall
  \/ verifyContractCall
  \/ getContractCall
  \/ \E resolved \in BOOLEAN : storeSettled(resolved)

SpecClient == ClientInit /\ [][ClientNext]_vars

\* ------------------------------------------------- deriving a contract ID
\* the owner IDs: the empty string, short base58 strings with and without
\* leading '1', an ID of identity size, and strings that are not base58
OwnerIds ==
  {<<>>, <<"1">>, <<"2">>, <<"z">>, <<"1", "1">>, <<"1", "z">>, <<"z", "z">>,
   <<"2", "z", "1">>, <<"z", "z", "z">>, ContractIdA, <<"0">>, <<"O", "z">>}

EntropyBytes == 32

\* the arrays crypto.getRandomValues can fill, one for each seed
Entropies == {HashArray(seed, EntropyBytes) : seed \in 0..MaxSeed}

\* a caller holds an owner ID and 32 bytes of entropy
GenerateInit ==
  /\ BrowseInit
  /\ created = <<>>
  /\ step = "derive"
  /\ text \in OwnerIds
  /\ bytes \in Entropies
  /\ args = [first |-> Returned(<<>>)]
  /\ out = Returned(<<>>)

generateContractIdCall ==
  /\ step = "derive"
  /\ out' = generateContractId(text, bytes)
  /\ step' = "derived"
  /\ UNCHANGED <<bytes, text, args, created, browseVars>>

\* a second derivation from the arguments of the first
generateContractIdAgain ==
  /\ step = "derived"
  /\ args' = [first |-> out]
  /\ out' = generateContractId(text, bytes)
  /\ step' = "derivedAgain"
  /\ UNCHANGED <<bytes, text, created, browseVars>>

GenerateNext == generateContractIdCall \/ generateContractIdAgain

SpecGenerate == GenerateInit /\ [][GenerateNext]_vars

\* ------------------------------------------------------------------ claims
NavOps == {"switchTab", "handleSearch", "clearSearch", "loadNextPage",
           "loadPreviousPage"}

\* the query the last step handed to the store
Newest(q) == q[Len(q)]

LastId(results) == results[Len(results)].id

\* C1: when the query issued by the latest navigation action fails, the query
\* state (activeTab, currentPage, pageHistory, currentCursor, isSearchMode,
\* searchQuery) equals the state before that action.
C1_FailedQueryLeavesStateUnchanged ==
  [][(lastOp'.op = "queryRejected" /\ lastOp'.nav /\ ~lastOp'.stale)
       => QueryState' = before]_vars

\* C2: the response of a query that a later navigation action has superseded
\* is never stored in lastResults or rendered.
C2_StaleResponseDiscarded ==
  lastOp.op \in {"queryResolved", "renderFailed"} => ~lastOp.stale

\* C3: the cursor stack has exactly currentPage - 1 entries and currentPage
\* is at least 1, in every reachable state.
C3_CursorStackMatchesPage ==
  /\ currentPage >= 1
  /\ Len(pageHistory) = currentPage - 1

\* C3 witness: loadPreviousPage has just gone back from page 3 to page 2.
C3_Witness ==
  /\ lastOp.op = "loadPreviousPage" /\ lastOp.effective
  /\ currentPage = 2 /\ Len(pageHistory) = 1

\* C4: currentCursor is none on page 1, and every step to page N + 1 takes the
\* cursor from the last record of the results that were fetched for page N,
\* also when the query for page N is still outstanding or has failed.
C4_CursorIsLastOfPreviousPage ==
  [][/\ currentPage' = 1 => currentCursor' = Null
     /\ currentPage' = currentPage + 1 =>
          /\ resultsPage = currentPage
          /\ currentCursor' = LastId(lastResults)]_vars

\* C5: every query handed to the store carries limit 12, ascending order on
\* the active collection's index field, the where filter of the active
\* search, and a startAfter equal to currentCursor when that is not none.
C5_StoreQueryShape ==
  [][Len(inflight') > Len(inflight) =>
       LET q == Newest(inflight').params
       IN  /\ q.limit = PageSize
           /\ q.orderBy = <<TAB_CONFIG[activeTab'].indexField, "asc">>
           /\ q.where = (IF isSearchMode'
                         THEN buildWhereClause(activeTab', searchQuery')
                         ELSE NoWhere)
           /\ currentCursor' # Null => q.startAfter = currentCursor']_vars

\* C6 as stated: a navigation action that takes effect hands exactly one query
\* to the store whatever the state of the connection, a no-op hands none.
C6_OneQueryPerTransition ==
  [][lastOp'.op \in NavOps =>
       Len(inflight') = Len(inflight) + (IF lastOp'.effective THEN 1 ELSE 0)]_vars

\* C6 amended: a navigation action that takes effect hands exactly one query
\* to the store when the client is ready and none when it is not; a no-op
\* hands none.
C6_OneQueryPerTransitionWhenReady ==
  [][lastOp'.op \in NavOps =>
       Len(inflight') =
         Len(inflight) + (IF lastOp'.effective /\ isReady THEN 1 ELSE 0)]_vars

\* C6 witness: switchTab on a ready client has just issued its query, and
\* that query is the only one awaiting.
C6_Witness ==
  /\ lastOp.op = "switchTab" /\ lastOp.effective
  /\ isReady
  /\ Len(inflight) = 1 /\ Newest(inflight).nav
  /\ Newest(inflight).params.type = activeTab

\* C7: at most one browse query is in flight at any moment.
C7_AtMostOneInFlight == Len(inflight) <= 1

\* C8: on a ready client, loadNextPage after a full page pushes the current
\* cursor, sets currentCursor to the last record's identifier, adds one to
\* currentPage and hands the store one query whose startAfter is that
\* identifier.
C8_NextPageAdvances ==
  [][(lastOp'.op = "loadNextPage" /\ Len(lastResults) >= PageSize /\ isReady) =>
       /\ pageHistory' = Append(pageHistory, currentCursor)
       /\ currentCursor' = LastId(lastResults)
       /\ currentPage' = currentPage + 1
       /\ Len(inflight') = Len(inflight) + 1
       /\ Newest(inflight').params.startAfter = LastId(lastResults)]_vars

\* C9: loadNextPage after a page shorter than the page size (empty and
\* never-fetched included) changes neither the query state nor lastResults and
\* issues no query.
C9_NextPageNoOpOnShortPage ==
  [][(lastOp'.op = "loadNextPage" /\ Len(lastResults) < PageSize) =>
       UNCHANGED <<queryVars, lastResults, inflight>>]_vars

\* C9 witness: loadNextPage has just returned early on a short, non-empty page.
C9_Witness ==
  /\ lastOp.op = "loadNextPage" /\ ~lastOp.effective
  /\ Len(lastResults) = ShortLen

\* C10: loadPreviousPage on page 1 changes nothing and issues no query; on a
\* later page it pops the cursor stack into currentCursor, takes one from
\* currentPage and, on a ready client, hands the store one query that carries
\* the restored cursor.
C10_PreviousPageRestores ==
  [][lastOp'.op = "loadPreviousPage" =>
       IF currentPage = 1
       THEN UNCHANGED <<queryVars, lastResults, inflight>>
       ELSE /\ currentCursor' = pageHistory[Len(pageHistory)]
            /\ pageHistory' = SubSeq(pageHistory, 1, Len(pageHistory) - 1)
            /\ currentPage' = currentPage - 1
            /\ isReady =>
                 /\ Len(inflight') = Len(inflight) + 1
                 /\ Newest(inflight').params.startAfter = currentCursor']_vars

\* C11: loadNextPage followed immediately by loadPreviousPage restores
\* currentPage, pageHistory and currentCursor to their values before the pair,
\* and the query loadPreviousPage hands to the store is the query
\* loadCurrentTab builds for the state before the pair (from page 1: no
\* startAfter, the same filter).
C11_NextThenPreviousRestores ==
  [][(/\ lastOp.op = "loadNextPage" /\ lastOp.effective
      /\ lastOp'.op = "loadPreviousPage") =>
       /\ currentPage' = before.currentPage
       /\ pageHistory' = before.pageHistory
       /\ currentCursor' = before.currentCursor
       /\ Len(inflight') = Len(inflight) + 1
       /\ Newest(inflight').params =
            Request(CONFIG, before.activeTab, before.currentPage,
                    before.currentCursor, before.isSearchMode,
                    before.searchQuery, TRUE).params
       /\ (before.currentPage = 1 =>
             /\ Newest(inflight').params.startAfter = Null
             /\ Newest(inflight').options.startAfter = Null)]_vars

\* C11 witness: the query of loadNextPage from page 1 is still awaited and
\* loadPreviousPage has just issued the first-page query again.
C11_Witness ==
  /\ lastOp.op = "loadPreviousPage" /\ lastOp.effective
  /\ Len(inflight) = 2
  /\ inflight[1].nav /\ inflight[1].stale /\ inflight[1].page = 2
  /\ inflight[2].page = 1 /\ inflight[2].params.startAfter = Null
  /\ currentPage = 1 /\ pageHistory = <<>> /\ currentCursor = Null
  /\ before.currentPage = 2

\* C12: an effective switchTab leaves the Idle state of the new collection
\* (page 1, empty cursor stack, no cursor, no search, empty lastResults), and a
\* cursor that loadNextPage takes from a page just received and places in its
\* query comes from a query for the same collection.
C12_SwitchTabDiscardsCursors ==
  [][/\ (lastOp'.op = "switchTab" /\ lastOp'.effective) =>
          /\ activeTab' # activeTab
          /\ currentPage' = 1 /\ pageHistory' = <<>> /\ currentCursor' = Null
          /\ ~isSearchMode' /\ searchQuery' = <<>>
          /\ lastResults' = <<>>
     /\ (/\ lastOp.op = "queryResolved"
         /\ lastOp'.op = "loadNextPage" /\ lastOp'.effective /\ isReady) =>
          (Newest(inflight').options.startAfter # Null
             => Newest(inflight').params.type = lastOp.type)]_vars

\* the integer the claim gives for a search term in IMDB display form or bare
\* decimal form, and for a term in OpenLibrary display form or bare decimal
\* form, as <<term, decimal digits>>
ImdbExamples ==
  {<<<<"t", "t", "0", "1", "3", "3", "0", "9", "3">>,
     <<"1", "3", "3", "0", "9", "3">>>>,
   <<<<"4", "2">>, <<"4", "2">>>>}

WorkExamples ==
  {<<<<"O", "L", "8", "W">>, <<"8">>>>,
   <<<<"4", "2">>, <<"4", "2">>>>}

\* C13: a search with a non-blank term leaves page 1 with an empty cursor
\* stack and no cursor, and on a ready client hands the store one query whose
\* filter is (field, ==, integer) on the imdbId, seriesImdbId and workId
\* collections for a term that denotes an integer, "tt0133093" on movie giving
\* (imdbId, ==, 133093), and (title, startsWith, term) on the title collections.
C13_SearchBuildsFilter ==
  [][(lastOp'.op = "handleSearch" /\ isSearchMode') =>
       LET field == TAB_CONFIG[activeTab].searchField
           where == Newest(inflight').params.where
       IN  /\ currentPage' = 1 /\ pageHistory' = <<>> /\ currentCursor' = Null
           /\ searchQuery' # <<>>
           /\ isReady =>
                /\ Len(inflight') = Len(inflight) + 1
                /\ \A e \in ImdbExamples :
                     (searchQuery' = e[1] /\ field \in {"imdbId", "seriesImdbId"})
                       => where = [field |-> field, op |-> "==", value |-> e[2]]
                /\ \A e \in WorkExamples :
                     (searchQuery' = e[1] /\ field = "workId")
                       => where = [field |-> "workId", op |-> "==", value |-> e[2]]
                /\ field = "title" =>
                     where = [field |-> "title", op |-> "startsWith",
                              value |-> searchQuery']]_vars

\* C13 witness: "tt0133093" has just been searched from page 2 of the movie
\* collection and the query asks for imdbId == 133093.
C13_Witness ==
  /\ lastOp.op = "handleSearch"
  /\ activeTab = "movie" /\ isSearchMode /\ currentPage = 1
  /\ before.currentPage = 2
  /\ Len(inflight) = 1
  /\ Newest(inflight).params.where =
       [field |-> "imdbId", op |-> "==", value |-> <<"1", "3", "3", "0", "9", "3">>]

\* C14: clearSearch, and a search with a blank term, from any page and any
\* filter leave search mode off with an empty term, page 1, an empty cursor
\* stack and no cursor, and on a ready client hand the store one query that
\* has neither a where clause nor a startAfter.
C14_ClearSearchResets ==
  [][(\/ lastOp'.op = "clearSearch"
      \/ lastOp'.op = "handleSearch" /\ ~isSearchMode') =>
       /\ ~isSearchMode' /\ searchQuery' = <<>>
       /\ currentPage' = 1 /\ pageHistory' = <<>> /\ currentCursor' = Null
       /\ activeTab' = activeTab
       /\ isReady =>
            /\ Len(inflight') = Len(inflight) + 1
            /\ Newest(inflight').options.where = NoWhere
            /\ Newest(inflight').options.startAfter = Null
            /\ Newest(inflight').params.where = NoWhere
            /\ Newest(inflight').params.startAfter = Null
            /\ Newest(inflight').params.type = activeTab]_vars

\* C14 witness: clearSearch has just run on page 2 of a filtered listing.
C14_Witness ==
  /\ lastOp.op = "clearSearch"
  /\ before.isSearchMode /\ before.currentPage = 2 /\ before.currentCursor # Null
  /\ ~isSearchMode /\ currentPage = 1
  /\ inflight # <<>>
  /\ Newest(inflight).params.where = NoWhere

\* C15: a query that resolves with no record leaves lastResults empty, the
\* error indicator hidden and the empty indicator visible, and while
\* lastResults is empty loadNextPage changes nothing and issues no query.
C15_EmptyPageIsNotAnError ==
  [][/\ (lastOp'.op \in {"queryResolved", "renderFailed"} /\ lastResults' = <<>>) =>
          /\ lastOp'.op = "queryResolved"
          /\ ~ui'.error /\ ui'.empty /\ ~ui'.loading
          /\ ui'.nextDisabled /\ ~ui'.pagination
     /\ (lastOp'.op = "loadNextPage" /\ lastResults = <<>>) =>
          /\ ~lastOp'.effective
          /\ UNCHANGED <<queryVars, lastResults, inflight, ui>>]_vars

\* C15 witness: loadNextPage has just returned early on a page that a query
\* fetched and that holds no record.
C15_Witness ==
  /\ lastOp.op = "loadNextPage" /\ ~lastOp.effective
  /\ lastResults = <<>> /\ resultsPage >= 1
  /\ ui.empty /\ ~ui.error

\* C16: after a query has failed the error indicator is visible and the page
\* the engine holds in lastResults is still the page shown in the grid.
C16_FailureKeepsShownResults ==
  lastOp.op = "queryRejected" =>
    /\ ui.error
    /\ ui.grid = RenderedPrefix(lastResults)

\* C17: the empty indicator and the error indicator are never visible
\* together, and after a query has resolved with no record the empty
\* indicator is visible and the error indicator hidden.
C17_EmptyAndErrorDistinct ==
  /\ ~(ui.empty /\ ui.error)
  /\ (lastOp.op \in {"queryResolved", "renderFailed"} /\ lastResults = <<>>) =>
       (ui.empty /\ ~ui.error)

\* C17 witness: a query has just resolved with no record while another query
\* is still awaited.
C17_Witness ==
  /\ lastOp.op = "queryResolved" /\ lastResults = <<>>
  /\ ui.empty /\ ~ui.error
  /\ inflight # <<>>

\* C18: decoding the encoding of a byte array gives the byte array back, the
\* empty array and all-zero arrays included, and the encoding starts with
\* exactly one '1' for each leading zero byte.
C18_Base58RoundTrip ==
  /\ step \in {"encoded", "roundtrip"} =>
       LeadingCount(text, "1") = LeadingCount(bytes, 0)
  /\ step = "roundtrip" => out = Returned(bytes)

\* the 58 symbols of the Bitcoin alphabet: the digits without 0, the capitals
\* without I and O, the small letters without l
BitcoinAlphabet ==
  {"1", "2", "3", "4", "5", "6", "7", "8", "9"}
    \cup ({"A", "B", "C", "D", "E", "F", "G", "H", "I", "J", "K", "L", "M",
           "N", "O", "P", "Q", "R", "S", "T", "U", "V", "W", "X", "Y", "Z"}
            \ {"I", "O"})
    \cup ({"a", "b", "c", "d", "e", "f", "g", "h", "i", "j", "k", "l", "m",
           "n", "o", "p", "q", "r", "s", "t", "u", "v", "w", "x", "y", "z"}
            \ {"l"})

\* C19: base58Decode throws the invalid-character error and returns no byte
\* exactly when some character of its input, at any position, is outside the
\* Bitcoin alphabet.
C19_Base58DecodeRejectsInvalid ==
  step = "decoded" =>
    IF \A i \in 1..Len(text) : text[i] \in BitcoinAlphabet
    THEN out.ok
    ELSE out = Thrown("Invalid base58 character")

\* C19 witness: a string whose last character alone is outside the alphabet
\* has been refused.
C19_Witness ==
  /\ step = "decoded" /\ Len(text) = 3
  /\ text[1] \in BitcoinAlphabet /\ text[2] \in BitcoinAlphabet
  /\ text[3] \notin BitcoinAlphabet
  /\ ~out.ok

\* lit occurs somewhere in s
Contains(s, lit) == \E p \in 1..Len(s) : MatchAt(s, p, lit)

\* C20: parseMagnetLink returns a result object for every argument, a value
\* that is not a string, the empty string, a link without btih and a link
\* whose dn or tr value has an invalid percent-escape included, and for an
\* argument with no btih, no dn and no tr parameter the result is
\* {infoHash: null, displayName: null, trackers: ''}.
C20_ParseMagnetLinkNeverFails ==
  step \in {"parsed", "parsedNotAString"} =>
    /\ out.ok
    /\ (~Contains(text, <<"b", "t", "i", "h">>) /\ ~Contains(text, DnKey)
          /\ ~Contains(text, TrKey)) =>
         out.value = [infoHash |-> NoText, displayName |-> NoText,
                      trackers |-> <<>>]

\* C28: for every array h of 20 bytes, bytesToHex(h) is 40 characters, each a
\* digit or a small letter a-f, and hexToBytes of it is h again.
C28_HexRoundTrip ==
  Len(bytes) = HashBytes =>
    /\ step \in {"hexed", "hexRoundTrip"} =>
         /\ Len(text) = HexChars
         /\ \A i \in 1..Len(text) : Position(HexDigits, text[i]) > 0
    /\ step = "hexRoundTrip" => out = Returned(bytes)
    /\ step # "hexFailed"

\* C28 witness: an array of 20 bytes with a byte below 16 and a byte above
\* 127 has been converted to hex and back.
C28_Witness ==
  /\ step = "hexRoundTrip" /\ Len(bytes) = HashBytes
  /\ \E i \in 1..HashBytes : bytes[i] < 16
  /\ \E i \in 1..HashBytes : bytes[i] > 127
  /\ out.ok

\* C29: hexToBytes throws for every input that is not 40 characters long and
\* bytesToHex throws for every input that is not 20 bytes long, the empty and
\* the missing input included; what either returns comes from all of its
\* input: 20 bytes from 40 characters, 40 characters from 20 bytes.
C29_FixedLengthOrFail ==
  /\ step = "unhexed" =>
       IF text = Undefined \/ Len(text) # HexChars
       THEN out = Thrown("Invalid hex string: must be 40 characters")
       ELSE out.ok /\ Len(out.value) = HashBytes
  /\ step = "hexFailed" =>
       /\ bytes = NoBytes \/ Len(bytes) # HashBytes
       /\ out = Thrown("Invalid bytes array: must be 20 bytes")
  /\ step = "hexed" =>
       bytes # NoBytes /\ Len(bytes) = HashBytes /\ Len(out.value) = HexChars

\* C29 witness: a string of 39 hex digits has been refused.
C29_Witness ==
  step = "unhexed" /\ text # Undefined /\ Len(text) = HexChars - 1 /\ ~out.ok

\* the infoHash argument is one of the two accepted representations
AcceptedInfoHash(infoHash) ==
  \/ infoHash.type = "Uint8Array" /\ infoHash.bytes # NoBytes
       /\ Len(infoHash.bytes) = HashBytes
  \/ infoHash.type = "string" /\ Len(infoHash.text) = HexChars
       /\ \A i \in 1..HexChars : IsHex(infoHash.text[i])

\* C21: buildMagnetUri throws, and returns no URI, for every infoHash argument
\* that is neither an array of 20 bytes nor a string of 40 hex digits.
C21_BuildRejectsInvalidInfoHash ==
  (step \in {"built", "buildFailed"} /\ ~AcceptedInfoHash(args.infoHash)) =>
    step = "buildFailed" /\ ~out.ok

\* the newline-joined list of the non-empty trimmed tracker URLs of t is t
CanonicalTrackers(t) == Join(NonEmptyTrimmed(Split(t, "\n")), "\n") = t

\* C23: for an array h of 20 bytes, a non-empty display name n and a list t
\* of tracker URLs joined by line feeds, parsing the magnet URI built from
\* them gives the hex digits of h, the name n and the list t in its order.
C23_MagnetRoundTrip ==
  (/\ args.infoHash.type = "Uint8Array"
   /\ Len(args.infoHash.bytes) = HashBytes
   /\ args.displayName \notin {NoText, <<>>}
   /\ CanonicalTrackers(args.trackers)) =>
    /\ step # "buildFailed"
    /\ step = "reparsed" =>
         out = Returned([infoHash    |-> HexOfBytes(args.infoHash.bytes),
                         displayName |-> args.displayName,
                         trackers    |-> args.trackers])

\* C23 witness: a link built from 20 bytes, a name with a parameter separator
\* and two trackers has been parsed back.
C23_Witness ==
  /\ step = "reparsed"
  /\ args.infoHash.type = "Uint8Array" /\ Len(args.infoHash.bytes) = HashBytes
  /\ Position(args.displayName, "&") > 0
  /\ Len(Split(args.trackers, "\n")) = 2
  /\ out.ok /\ out.value.displayName = args.displayName

\* the positions at which an entry of s starts: the first character and each
\* character after a separator
EntryStarts(s) ==
  {i \in 1..Len(s) : s[i] \notin TrackerSeparators
                       /\ (i = 1 \/ s[i - 1] \in TrackerSeparators)}

\* the entry of s that starts at position i, trimmed
EntryAt(s, i) ==
  LET j == CHOOSE k \in i..Len(s) :
             /\ \A m \in i..k : s[m] \notin TrackerSeparators
             /\ (k = Len(s) \/ s[k + 1] \in TrackerSeparators)
  IN  Trim(SubSeq(s, i, j))

\* the first position of s at which the entry t starts
FirstStart(s, t) ==
  CHOOSE i \in EntryStarts(s) :
    /\ EntryAt(s, i) = t
    /\ \A k \in EntryStarts(s) : EntryAt(s, k) = t => i <= k

\* C27: parseTrackersInput returns, for every input, the trimmed entries
\* between line feeds and commas that start with udp://, http://, https:// or
\* wss://, each once, in the order of their first occurrence, and the empty
\* list for an empty input and for an input that is not a string.
C27_ParseTrackersInput ==
  step = "trackersParsed" =>
    /\ out.ok
    /\ LET list == out.value
       IN  /\ {list[k] : k \in 1..Len(list)} =
                {t \in {EntryAt(text, i) : i \in EntryStarts(text)} :
                   \E scheme \in {<<"u", "d", "p", ":", "/", "/">>,
                                  <<"h", "t", "t", "p", ":", "/", "/">>,
                                  <<"h", "t", "t", "p", "s", ":", "/", "/">>,
                                  <<"w", "s", "s", ":", "/", "/">>} :
                     MatchAt(t, 1, scheme)}
           /\ \A k, l \in 1..Len(list) :
                k < l => FirstStart(text, list[k]) < FirstStart(text, list[l])
           /\ (text = Undefined \/ text = <<>>) => list = <<>>

\* C27 witness: "http://a\nhttp://a,ftp://b" has given ["http://a"].
C27_Witness ==
  /\ step = "trackersParsed"
  /\ text = <<"h", "t", "t", "p", ":", "/", "/", "a", "\n",
              "h", "t", "t", "p", ":", "/", "/", "a", ",",
              "f", "t", "p", ":", "/", "/", "b">>
  /\ out = Returned(<<(<<"h", "t", "t", "p", ":", "/", "/", "a">>)>>)

\* s is prefix, then one to ten digits, then suffix, in either letter case
IsDisplayForm(s, prefix, suffix) ==
  /\ Len(s) - Len(prefix) - Len(suffix) \in 1..10
  /\ MatchAtNoCase(s, 1, prefix)
  /\ MatchAtNoCase(s, Len(s) - Len(suffix) + 1, suffix)
  /\ \A i \in (Len(prefix) + 1)..(Len(s) - Len(suffix)) : s[i] \in Digits

\* the number a string of digits denotes, as its digits without leading zeros
Denoted(ds) ==
  LET nonzero == {i \in 1..Len(ds) : ds[i] # "0"}
  IN  IF nonzero = {} THEN <<"0">>
      ELSE SubSeq(ds, CHOOSE i \in nonzero : \A j \in nonzero : i <= j, Len(ds))

\* what the claim has a typed-ID parser return for the string s
ClaimedId(s, prefix, suffix) ==
  IF IsDisplayForm(s, prefix, suffix)
  THEN Denoted(SubSeq(s, Len(prefix) + 1, Len(s) - Len(suffix)))
  ELSE IF s # <<>> /\ (\A i \in 1..Len(s) : s[i] \in Digits) /\ Len(Denoted(s)) <= 10
  THEN Denoted(s)
  ELSE NullId

\* C24: parseImdbId and parseWorkId return n for the display form ("tt" and
\* one to ten digits, "OL", one to ten digits and "W") and for a bare decimal
\* string that denotes n in 0..9999999999, and return null for every other
\* string; they never throw.
C24_ParseTypedIdStrict ==
  /\ step = "imdbParsed" =>
       out = Returned(ClaimedId(text, <<"t", "t">>, <<>>))
  /\ step = "workParsed" =>
       out = Returned(ClaimedId(text, <<"O", "L">>, <<"W">>))

\* C25: for every integer n of the range, parsing the formatted n gives n,
\* for the IMDB and for the Work ID form; and for every canonical display
\* string, formatting the parsed value gives the string back.
C25_FormatParseInverse ==
  /\ step = "imdbBack" => out = Returned(args.given)
  /\ step = "workBack" => out = Returned(args.given)
  /\ step = "imdbDisplayBack" => text = args.given
  /\ step = "workDisplayBack" => text = args.given

\* C25 witness: 0 has gone through formatImdbId and parseImdbId and came
\* back, its formatted form being "tt0000000".
C25_Witness ==
  /\ step = "imdbBack" /\ args.given = <<"0">>
  /\ text = <<"t", "t", "0", "0", "0", "0", "0", "0", "0">>
  /\ out.value = <<"0">>

\* s is exactly 40 hexadecimal characters
FortyHexDigits(s) ==
  /\ s # Undefined
  /\ Len(s) = 40
  /\ \A i \in 1..Len(s) :
       s[i] \in {"0", "1", "2", "3", "4", "5", "6", "7", "8", "9",
                 "a", "b", "c", "d", "e", "f", "A", "B", "C", "D", "E", "F"}

\* C22: the store's create is called only for a form whose infoHash is
\* exactly 40 hexadecimal characters: any other entry, of another length or
\* with a character that is not a hex digit, is rejected before the call.
C22_NoWriteFromInvalidInfoHash ==
  created # <<>> => FortyHexDigits(args.formData.infoHash)

\* the typed-ID field of the collection, "" when it has none
TypedIdField(docType) ==
  IF docType = "movie" THEN "imdbId"
  ELSE IF docType = "tv" THEN "seriesImdbId"
  ELSE IF docType = "book" THEN "workId"
  ELSE ""

\* C26: in every document handed to the store the typed-ID field, when
\* present, is an integer of 0..9999999999, written in bare digits, never the
\* display string; and a form whose typed-ID entry the parser returns null
\* for (or that has none) leaves the field absent and is rejected, nothing
\* being handed to the store.
C26_TypedIdStoredAsInteger ==
  /\ \A k \in 1..Len(created) :
       \A field \in {"imdbId", "seriesImdbId", "workId"} :
         LET id == created[k].data[field]
         IN  id # NullId =>
               /\ Len(id) \in 1..10
               /\ \A i \in 1..Len(id) : id[i] \in Digits
               /\ Len(id) > 1 => id[1] # "0"
               /\ field = TypedIdField(created[k].type)
  /\ (step # "form" /\ TypedIdField(args.docType) # "") =>
       LET entered == args.formData[TypedIdField(args.docType)]
           parsed  == IF entered = Undefined THEN NullId
                      ELSE IF args.docType = "book" THEN parseWorkId(entered)
                      ELSE parseImdbId(entered)
       IN  parsed = NullId =>
             /\ step = "failed" /\ created = <<>>
             /\ args.data[TypedIdField(args.docType)] = NullId

\* C26 witness: a movie form with the IMDB ID typed as "tt0133093" has been
\* handed to the store with imdbId 133093.
C26_Witness ==
  /\ created # <<>>
  /\ args.formData.imdbId = <<"t", "t", "0", "1", "3", "3", "0", "9", "3">>
  /\ created[1].data.imdbId = <<"1", "3", "3", "0", "9", "3">>

\* the contract IDs the creation result carries: the string itself when it is
\* a contract ID, the ID fields of an object
CarriedIds(result) ==
  IF result.kind = "string"
  THEN {result.text} \cap {ContractIdA, ContractIdB}
  ELSE IF result.kind = "object"
  THEN ({result.dataContractId, result.contractId, result.id}
          \cup (IF result.dataContract.given
                THEN {result.dataContract.id, result.dataContract.dollarId}
                ELSE {})) \ {Undefined}
  ELSE {}

\* C30: once contracts.create has resolved, registerContract returns: the ID
\* the store assigned when the result carries IDs that all differ from the
\* generated one, the generated ID when the result carries none or only the
\* generated one; registerContract never throws once the store has answered,
\* whatever ID the answer carries.
C30_RegisterPrefersStoreId ==
  /\ step = "registered" =>
       /\ out.ok
       /\ LET carried == CarriedIds(args.result)
          IN  /\ (carried # {} /\ args.generated \notin carried) =>
                   out.value \in carried
              /\ carried \subseteq {args.generated} => out.value = args.generated
              /\ out.value \in carried \cup {args.generated}
  /\ step = "failed" => args.result = NoResult

\* C30 witness: the store returned an object whose dataContract.$id alone
\* holds an ID other than the generated one, and that ID was returned.
C30_Witness ==
  /\ step = "registered"
  /\ args.result.kind = "object"
  /\ args.result.dataContractId = Undefined /\ args.result.contractId = Undefined
  /\ args.result.id = Undefined /\ args.result.dataContract.given
  /\ args.result.dataContract.id = Undefined
  /\ args.result.dataContract.dollarId \notin {Undefined, args.generated}
  /\ out = Returned(args.result.dataContract.dollarId)

RejectedTerm(tab, term) ==
  LET field == TAB_CONFIG[tab].searchField
  IN  \/ field \in {"imdbId", "seriesImdbId"} /\ parseImdbId(term) = NullId
      \/ field = "workId" /\ parseWorkId(term) = NullId

\* C32: a search on the movie, tv or book collection with a non-blank term
\* that parseImdbId / parseWorkId rejects records search mode with the trimmed
\* term and, on a ready client, hands the store one query for the first page
\* of the collection with no where clause and no startAfter.
C32_RejectedTermSearchesUnfiltered ==
  [][\A input \in SearchTerms :
       (/\ handleSearch(input)
        /\ Trim(input) # <<>>
        /\ RejectedTerm(activeTab, Trim(input)))
         => /\ isSearchMode' /\ searchQuery' = Trim(input)
            /\ currentPage' = 1
            /\ isReady =>
                 /\ Len(inflight') = Len(inflight) + 1
                 /\ Newest(inflight').options.where = NoWhere
                 /\ Newest(inflight').params =
                      [contractId |-> CONFIG.contractId,
                       type       |-> activeTab,
                       limit      |-> PageSize,
                       where      |-> NoWhere,
                       orderBy    |-> <<TAB_CONFIG[activeTab].indexField, "asc">>,
                       startAfter |-> Null]]_vars

\* C32 witness: "ub" has just been searched from page 2 of the book
\* collection; search mode is on and the awaited query has no filter.
C32_Witness ==
  /\ lastOp.op = "handleSearch"
  /\ activeTab = "book" /\ isSearchMode /\ searchQuery = <<"u", "b">>
  /\ parseWorkId(searchQuery) = NullId
  /\ before.currentPage = 2
  /\ Len(inflight) = 1
  /\ Newest(inflight).params.where = NoWhere

\* C33: a store query that resolved never ends with the error indicator
\* visible, whatever records it returned, and while the error indicator is
\* visible lastResults holds a page that was displayed in full.
C33_ErrorOnlyFromFailedQuery ==
  /\ lastOp.op \in {"queryResolved", "renderFailed"} => ~ui.error
  /\ ui.error => ~RenderThrows(lastResults)

SettingsOps == {"connect", "connectRefused", "reload", "connectResolved",
                "connectRejected"}

ConnectCalls == {"connect", "connectRefused", "reload"}

\* C35: a connect call made while another connect is in progress is refused
\* and leaves sdk, network, connected and connecting as they are, and starts
\* no query; a connect call made while none is in progress is not refused;
\* when the awaited sdk.connect() of an attempt resolves or rejects,
\* connecting is false again.
C35_ConnectMutuallyExclusive ==
  [][/\ (lastOp'.op \in ConnectCalls /\ connecting) =>
          /\ lastOp'.op = "connectRefused"
          /\ UNCHANGED <<sdk, network, connected, connecting, connectTarget>>
          /\ inflight' = inflight
     /\ (lastOp'.op \in ConnectCalls /\ ~connecting) =>
          /\ lastOp'.op # "connectRefused"
          /\ lastOp'.op = "reload" => ~connecting'
     /\ lastOp'.op \in {"connectResolved", "connectRejected"} =>
          connecting /\ ~connecting']_vars

\* C35 witness: a second settings change has just been refused while the
\* connect to mainnet started by the first is still in progress.
C35_Witness ==
  /\ lastOp.op = "connectRefused"
  /\ connecting /\ connectTarget = "mainnet" /\ sdk = "mainnet"
  /\ CONFIG.network = "testnet"

\* C36: after a connect attempt has failed the client is not connected, not
\* ready and not connecting, whatever it was connected to before, and the
\* caller takes its failure path (no query is issued); the next connect call
\* is not refused; an attempt that disconnects leaves the client not ready,
\* and the client becomes ready only in the step in which a connect attempt
\* succeeds.
C36_FailedConnectLeavesNotReady ==
  [][/\ lastOp'.op = "connectRejected" =>
          /\ ~connected' /\ ~isReady' /\ ~connecting'
          /\ inflight' = inflight
     /\ (lastOp.op = "connectRejected" /\ lastOp'.op \in ConnectCalls) =>
          /\ lastOp'.op = "connect"
          /\ connecting'
     /\ lastOp'.op = "connect" => ~isReady'
     /\ (~isReady /\ isReady') => lastOp'.op = "connectResolved"
     /\ lastOp'.op = "connectResolved" => isReady']_vars

\* C36 witness: a client that was connected to testnet and holds a page of
\* results has just failed to connect to mainnet.
C36_Witness ==
  /\ lastOp.op = "connectRejected"
  /\ network = "testnet" /\ sdk = "mainnet"
  /\ lastResults # <<>>
  /\ ~connected /\ ~isReady /\ ~connecting

\* the steps in which a call to the store is awaited
StoreSteps == {"verifying", "creating", "registering", "querying", "fetching",
               "getting"}

FetchedContract(fetch) ==
  fetch.settled = "resolved" /\ fetch.contract \notin {NoContract, Undefined}

\* C38: documents.create is called only in the step in which the contract
\* fetch awaited by the same submitDocument call settles, with the arguments
\* of that call, and only once; when the fetch resolves with no contract or
\* rejects, the call fails with the contract-not-found error and
\* documents.create is not called.
C38_CreateOnlyAfterContractFound ==
  [][/\ created' # created =>
          /\ step = "verifying" /\ step' = "creating"
          /\ created = <<>>
          /\ created' = <<[contractId |-> args.contractId,
                           type |-> args.docType, data |-> args.data]>>
     /\ \A fetch \in FetchOutcomes :
          (contractFetched(Found(verifyContract(fetch))) /\ ~FetchedContract(fetch))
            => /\ created' = <<>>
               /\ step' = "failed"
               /\ out' = Thrown("Contract not found on network")]_vars

\* C38 witness: the contract was found and documents.create has been called
\* once, with the contract ID and the prepared data of the call.
C38_Witness ==
  /\ step = "creating"
  /\ Len(created) = 1
  /\ created[1].contractId = args.contractId
  /\ created[1].data = args.data /\ args.data # NoData

\* the data validateDocumentData accepts, in the words of the claim
AcceptedData(docType, data) ==
  /\ data.infoHash # NoBytes /\ Len(data.infoHash) = 20
  /\ data.torrentName \notin {Undefined, <<>>}
  /\ docType = "movie" => data.imdbId # NullId
  /\ docType = "tv" => data.seriesImdbId # NullId
  /\ docType = "book" => data.workId # NullId
  /\ docType \in {"iso", "other"} => data.title \notin {Undefined, <<>>}

\* C39: the admin flow hands a document to submitDocument, and later to
\* documents.create, only when the identity ID, the private key and the
\* contract ID are not empty and the prepared data has an infoHash of 20
\* bytes, a torrent name and the identifying field of its collection; an
\* execution that ends without handing it over has appended an error to the
\* output area and created nothing; and whenever an execution has ended the
\* execute button is enabled, being disabled only while one is awaited.
C39_SubmitOnlyWhenValid ==
  /\ step \in {"verifying", "creating"} \/ created # <<>> =>
       /\ Trim(args.identityId) # <<>>
       /\ Trim(args.privateKey) # <<>>
       /\ args.contractId # ""
       /\ AcceptedData(args.docType, args.data)
  /\ (step = "done" /\ created = <<>>) => ~out.ok \/ out = Returned(<<>>)
  /\ (step = "done" /\ created = <<>>) => Len(ui.output) = 1
  /\ step \in {"idle", "done"} => ~ui.executeBtnDisabled
  /\ ui.executeBtnDisabled => step \in {"connecting", "verifying", "creating"}

\* C39 witness: a form without torrent name was executed with identity ID,
\* private key and contract ID filled in; after the connect the validation
\* failed, the error is in the output area, nothing was created and the
\* button is enabled.
C39_Witness ==
  /\ step = "done" /\ out = Thrown("Validation failed")
  /\ args.formData.torrentName = Undefined
  /\ Trim(args.identityId) # <<>> /\ args.contractId # ""
  /\ connected /\ network = "mainnet"
  /\ created = <<>>
  /\ Len(ui.output) = 1 /\ ~ui.executeBtnDisabled

====
